---- MODULE Spec2Model ----
(***************************************************************************)
(* Student grouping app: the partition builder (groupStudents), the        *)
(* lock-respecting repartitioner (reshuffleRespectingLocksToGroupSize),    *)
(* the cohort check (lockedStayInPlace) and the page's handlers that call  *)
(* them, modelled from src/unnamed/part_000.                               *)
(***************************************************************************)
EXTENDS Integers, Sequences, FiniteSets, TLC

VARIABLES
  input,     \* the arguments of the core call under test (core specifications)
  out,       \* what that call returned or threw
  again,     \* what the same call returned when it was made a second time
  calls,     \* how many times the call was made
  csvText,   \* els.csvText.value: the lines of the CSV textarea, split in cells
  sizeField, \* els.groupSize.value, as parseInt reads it: a size, or NaN when empty
  seedField, \* els.seed.value, as the seed the handlers read from it
  state,     \* the page's state object: programs, groupSize, groups, lastCsvText
  dom,       \* the rendered .group sections: per group its .student items
  dragged,   \* bindDnD's `dragged`: the name on the dragged item, "" for null
  banner,    \* the message in #group-flash, "" when there is none
  event,     \* what the last handler was asked and how it ended
  steps      \* how many handlers have run

coreVars == <<input, out, again, calls>>

uiVars == <<csvText, sizeField, seedField, state, dom, dragged, banner, event, steps>>

vars == <<input, out, again, calls,
          csvText, sizeField, seedField, state, dom, dragged, banner, event, steps>>

\* ------------------------------------------------------------------ bounds

\* Longest roster handed to groupStudents.
MaxStudents == 4

\* Largest group size requested.
MaxGroupSize == 3

\* Most groups in the partition handed to the repartitioner.
MaxGroups == 2

\* How many of the programs the students of such a partition come from.
MaxPartitionPrograms == 2

\* How many handlers run on the page in one behaviour.
MaxSteps == 5

\* How many students the groups handed to lockedStayInPlace are made of.
MaxCheckStudents == 3

\* The study programs of the rosters, and their order under Array.prototype.sort
\* (code-unit order: "CS" < "Math" < "Physics").
ProgramOrder == <<"CS", "Math", "Physics">>

Programs == {ProgramOrder[i] : i \in 1..Len(ProgramOrder)}

\* The student names; the k-th row of a roster carries the k-th name.
NameOrder == <<"Ada", "Bob", "Cyd", "Dee", "Eve", "Fay">>

\* The seeds typed into the seed field.
Seeds == {1, 42}

\* ---------------------------------------------------------------- helpers

\* NaN, what parseInt reads from the emptied size field: written as an integer
\* that no size takes; every comparison with it is false, as in JavaScript.
NaN == 0 - 1000

\* parseInt(els.groupSize.value || '4', 10): the size when the field is empty
DefaultSize == 4

Min(a, b) == IF a < b THEN a ELSE b

Max(a, b) == IF a > b THEN a ELSE b

\* A mutation of CeilDiv: Math.floor(a / b) + 1, one more when b divides a.
FloorDivPlusOne(a, b) == (a \div b) + 1

\* Math.ceil(a / b) for a >= 0, b > 0.
CeilDiv(a, b) == (a + b - 1) \div b

Range(s) == {s[i] : i \in 1..Len(s)}

RECURSIVE SumLens(_)
SumLens(seqs) ==
  IF seqs = <<>> THEN 0 ELSE Len(Head(seqs)) + SumLens(Tail(seqs))

RECURSIVE Flatten(_)
Flatten(seqs) ==
  IF seqs = <<>> THEN <<>> ELSE Head(seqs) \o Flatten(Tail(seqs))

\* arr.pop(): the array without its last element.
Pop(arr) == SubSeq(arr, 1, Len(arr) - 1)

Last(arr) == arr[Len(arr)]

\* ------------------------------------------------- 32-bit words (mulberry32)
\* A 32-bit word is <<hi, lo>>, two 16-bit halves: every intermediate value
\* stays below 2^31.

RECURSIVE XorBits(_, _, _)
XorBits(a, b, n) ==
  IF n = 0 THEN 0
  ELSE ((a + b) % 2) + 2 * XorBits(a \div 2, b \div 2, n - 1)

RECURSIVE OrBits(_, _, _)
OrBits(a, b, n) ==
  IF n = 0 THEN 0
  ELSE Max(a % 2, b % 2) + 2 * OrBits(a \div 2, b \div 2, n - 1)

\* x ^ y
Xor32(x, y) == <<XorBits(x[1], y[1], 16), XorBits(x[2], y[2], 16)>>

\* x | y
Or32(x, y) == <<OrBits(x[1], y[1], 16), OrBits(x[2], y[2], 16)>>

\* x >>> k, for 0 < k < 16
Shr32(x, k) ==
  <<x[1] \div (2^k), (x[2] \div (2^k)) + (x[1] % (2^k)) * (2^(16 - k))>>

\* (x + y) | 0
Add32(x, y) ==
  LET lo == x[2] + y[2]
  IN  <<(x[1] + y[1] + (lo \div 65536)) % 65536, lo % 65536>>

\* The 32-bit product of two 16-bit numbers, as a word.
Mul16(a, b) ==
  LET p0 == (a % 256) * b
      p1 == (a \div 256) * b
      s  == p0 + (p1 % 256) * 256
  IN  <<(s \div 65536) + (p1 \div 256), s % 65536>>

\* Math.imul(x, y): the low 32 bits of the product.
Imul(x, y) ==
  LET ll == Mul16(x[2], y[2])
  IN  <<(ll[1] + Mul16(x[1], y[2])[2] + Mul16(x[2], y[1])[2]) % 65536, ll[2]>>

\* a |= 0 for a seed 0 <= a < 2^31.
ToInt32(n) == <<(n \div 65536) % 65536, n % 65536>>

\* 0x6D2B79F5
MulberryIncrement == <<27947, 31221>>

\* One call of the generator mulberry32(seed) returns: the new state a and
\* the 32-bit numerator r of the value r / 4294967296 it yields.
\* let t = Math.imul(a ^ a >>> 15, 1 | a)
MulberryFirst(a) == Imul(Xor32(a, Shr32(a, 15)), Or32(<<0, 1>>, a))

\* t = t + Math.imul(t ^ t >>> 7, 61 | t) ^ t
MulberrySecond(t) ==
  Xor32(Add32(t, Imul(Xor32(t, Shr32(t, 7)), Or32(<<0, 61>>, t))), t)

\* (t ^ t >>> 14) >>> 0
MulberryLast(t) == Xor32(t, Shr32(t, 14))

\* the generator's return value for the state a already incremented
MulberryYield(a) == [a |-> a, r |-> MulberryLast(MulberrySecond(MulberryFirst(a)))]

Mulberry32Next(a) == MulberryYield(Add32(a, MulberryIncrement))

\* Math.floor(r / 4294967296 * n) for a 32-bit numerator r and 0 < n < 2^15.
FloorMul(r, n) == (r[1] * n + ((r[2] * n) \div 65536)) \div 65536

\* ------------------------------------------------------ the random source

\* The seed argument: undefined, or a number.
NoSeed == [given |-> FALSE, value |-> 0]

SeedOf(n) == [given |-> TRUE, value |-> n]

\* A mutation of MakeRng that ignores the seed.
MakeRngUnseeded(seed, tape) ==
  [seeded |-> FALSE, a |-> <<0, 0>>, tape |-> tape, asked |-> <<>>]

\* const rng = (typeof seed === 'number') ? mulberry32(seed) : undefined
\* tape: the values Math.random() returns, in order, as 32-bit numerators
\* (read only when rng is undefined); asked: the ranges i + 1 the shuffles
\* have drawn for so far.
MakeRng(seed, tape) ==
  [seeded |-> seed.given,
   a      |-> IF seed.given THEN ToInt32(seed.value) ELSE <<0, 0>>,
   tape   |-> tape,
   asked  |-> <<>>]

\* rng ? rng() : Math.random()
SeededDraw(rng, m) == [r |-> m.r, rng |-> [rng EXCEPT !.a = m.a]]

RandomNext(rng) ==
  IF rng.seeded
  THEN SeededDraw(rng, Mulberry32Next(rng.a))
  ELSE IF rng.tape = <<>>
       THEN [r |-> <<0, 0>>, rng |-> rng]
       ELSE [r |-> Head(rng.tape), rng |-> [rng EXCEPT !.tape = Tail(@)]]

\* A mutation of Swap that copies arr[j] over arr[i] and leaves arr[j].
SwapCopy(arr, i, j) ==
  <<>> \o [k \in 1..Len(arr) |-> IF k = i + 1 THEN arr[j + 1] ELSE arr[k]]

\* for (let i = arr.length - 1; i > 0; i--) { j = floor(random * (i + 1)); swap }
\* [arr[i], arr[j]] = [arr[j], arr[i]]
Swap(arr, i, j) ==
  <<>> \o [k \in 1..Len(arr) |->
            IF k = i + 1 THEN arr[j + 1]
            ELSE IF k = j + 1 THEN arr[i + 1] ELSE arr[k]]

RECURSIVE ShuffleFrom(_, _, _)
\* the rest of the loop, after the draw d for index i
ShuffleDrawn(arr, d, i) ==
  ShuffleFrom(Swap(arr, i, FloorMul(d.r, i + 1)),
              [d.rng EXCEPT !.asked = Append(@, i + 1)], i - 1)

ShuffleFrom(arr, rng, i) ==
  IF i < 1 THEN [arr |-> arr, rng |-> rng]
  ELSE ShuffleDrawn(arr, RandomNext(rng), i)

ShuffleInPlace(arr, rng) == ShuffleFrom(arr, rng, Len(arr) - 1)

\* Values of Math.random() that make Math.floor(random * n) take each of
\* 0 .. n-1 once.
RandomFor(n) == {<<(k * 65536 + n - 1) \div n, 0>> : k \in 0..(n - 1)}

\* Every tape of Math.random() values for a run that draws for the ranges
\* `asked`, one representative per outcome of each draw.
RECURSIVE TapesFor(_)
TapesFor(asked) ==
  IF asked = <<>> THEN {<<>>}
  ELSE {<<r>> \o t : r \in RandomFor(Head(asked)), t \in TapesFor(Tail(asked))}

\* ----------------------------------------------------------- groupStudents

Rank(p) == CHOOSE i \in 1..Len(ProgramOrder) : ProgramOrder[i] = p

\* Array.from(programMap.keys()): the programs in order of first appearance.
RECURSIVE MapKeys(_, _)
MapKeys(students, seen) ==
  IF students = <<>> THEN seen
  ELSE MapKeys(Tail(students),
               IF Head(students).program \in Range(seen) THEN seen
               ELSE Append(seen, Head(students).program))

RECURSIVE InsertProgram(_, _)
InsertProgram(sorted, p) ==
  IF sorted = <<>> THEN <<p>>
  ELSE IF Rank(p) < Rank(Head(sorted)) THEN <<p>> \o sorted
  ELSE <<Head(sorted)>> \o InsertProgram(Tail(sorted), p)

\* keys.sort()
RECURSIVE SortPrograms(_)
SortPrograms(keys) ==
  IF keys = <<>> THEN <<>>
  ELSE InsertProgram(SortPrograms(Pop(keys)), Last(keys))

\* A function written [i \in 1..n |-> e], as the sequence of its values.
ToSeq(f) == <<>> \o f

\* programMap: a Map from program to its students ({ ...s }) in input order,
\* as its entries in insertion order.
MapOf(keys, rows) ==
  ToSeq([k \in 1..Len(keys) |->
           [key |-> keys[k], value |-> SelectSeq(rows, LAMBDA s : s.program = keys[k])]])

ProgramMap(students) ==
  MapOf(MapKeys(students, <<>>),
        ToSeq([i \in 1..Len(students) |->
                 [name |-> students[i].name, program |-> students[i].program]]))

\* programMap.get(p), for a key of the map
MapGet(map, p) == map[CHOOSE k \in 1..Len(map) : map[k].key = p].value

\* the map after programMap.get(p) was changed in place to `value`
MapPut(map, p, value) ==
  LET at == CHOOSE k \in 1..Len(map) : map[k].key = p
  IN  SubSeq(map, 1, at - 1) \o <<[key |-> p, value |-> value]>>
        \o SubSeq(map, at + 1, Len(map))

\* for (const p of programs) shuffleInPlace(programMap.get(p), rng)
RECURSIVE ShuffleBuckets(_, _, _)
\* the rest of the loop, after the bucket of the first program was shuffled
ShuffledBucket(buckets, programs, sh) ==
  ShuffleBuckets(MapPut(buckets, Head(programs), sh.arr), Tail(programs), sh.rng)

ShuffleBuckets(buckets, programs, rng) ==
  IF programs = <<>> THEN [buckets |-> buckets, rng |-> rng]
  ELSE ShuffledBucket(buckets, programs,
                      ShuffleInPlace(MapGet(buckets, Head(programs)), rng))

\* { ...s, locked: false }
Unlocked(s) == [name |-> s.name, program |-> s.program, locked |-> FALSE]

\* groups[k - 1].push(s)
PushTo(groups, k, s) ==
  SubSeq(groups, 1, k - 1) \o <<Append(groups[k], s)>> \o SubSeq(groups, k + 1, Len(groups))

\* Array.from({ length: n }, () => [])
RECURSIVE EmptyGroups(_)
EmptyGroups(n) == IF n <= 0 THEN <<>> ELSE Append(EmptyGroups(n - 1), <<>>)

\* groups.every(gr => gr.length >= groupSize)
AllFull(groups, groupSize) ==
  \A i \in 1..Len(groups) : Len(groups[i]) >= groupSize

\* A mutation of FillFromBucket that stays at a group while it has room.
RECURSIVE FillGreedily(_, _, _, _)
FillGreedily(groups, bucket, g, groupSize) ==
  IF g >= Len(groups) THEN [groups |-> groups, bucket |-> bucket]
  ELSE IF Len(groups[g + 1]) < groupSize /\ Len(bucket) > 0
       THEN FillGreedily(PushTo(groups, g + 1, Unlocked(Last(bucket))), Pop(bucket),
                         g, groupSize)
       ELSE FillGreedily(groups, bucket, g + 1, groupSize)

\* for (let g = 0; g < numGroups; g++)
\*   if (groups[g].length < groupSize && bucket.length > 0) groups[g].push(bucket.pop())
RECURSIVE FillFromBucket(_, _, _, _)
FillFromBucket(groups, bucket, g, groupSize) ==
  IF g >= Len(groups) THEN [groups |-> groups, bucket |-> bucket]
  ELSE IF Len(groups[g + 1]) < groupSize /\ Len(bucket) > 0
       THEN FillFromBucket(PushTo(groups, g + 1, Unlocked(Last(bucket))),
                           Pop(bucket), g + 1, groupSize)
       ELSE FillFromBucket(groups, bucket, g + 1, groupSize)

\* for (const p of programsWithEnough) { ... }
RECURSIVE AssignEnough(_, _, _, _)
\* the rest of the loop, after the groups took from the first program's bucket
AssignedBucket(buckets, enough, groupSize, f) ==
  AssignEnough(f.groups, MapPut(buckets, Head(enough), f.bucket), Tail(enough), groupSize)

AssignEnough(groups, buckets, enough, groupSize) ==
  IF enough = <<>> THEN [groups |-> groups, buckets |-> buckets]
  ELSE AssignedBucket(buckets, enough, groupSize,
                      FillFromBucket(groups, MapGet(buckets, Head(enough)), 0, groupSize))

RECURSIVE RoundRobinBucket(_, _, _, _)
\* g = (g + 1) % numGroups; if (groups.every(full)) break;
RoundRobinNext(groups, bucket, g, groupSize) ==
  IF AllFull(groups, groupSize) THEN [groups |-> groups, bucket |-> bucket]
  ELSE RoundRobinBucket(groups, bucket, (g + 1) % Len(groups), groupSize)

\* A mutation of RoundRobinBucket that pushes without asking for room.
RoundRobinNoRoomCheck(groups, bucket, g, groupSize) ==
  IF Len(bucket) = 0 THEN [groups |-> groups, bucket |-> bucket]
  ELSE RoundRobinNext(PushTo(groups, g + 1, Unlocked(Last(bucket))), Pop(bucket),
                      g, groupSize)

\* let g = 0; while (bucket.length > 0) { push if room; g = (g + 1) % numGroups;
\*   if (groups.every(full)) break; }
RoundRobinBucket(groups, bucket, g, groupSize) ==
  IF Len(bucket) = 0 THEN [groups |-> groups, bucket |-> bucket]
  ELSE IF Len(groups[g + 1]) < groupSize
       THEN RoundRobinNext(PushTo(groups, g + 1, Unlocked(Last(bucket))), Pop(bucket),
                           g, groupSize)
       ELSE RoundRobinNext(groups, bucket, g, groupSize)

\* for (const p of programsWithShortage) { ... }
RECURSIVE DistributeShortage(_, _, _, _)
\* the rest of the loop, after the first short program's bucket was dealt out
DistributedBucket(buckets, shortage, groupSize, f) ==
  DistributeShortage(f.groups, MapPut(buckets, Head(shortage), f.bucket),
                     Tail(shortage), groupSize)

DistributeShortage(groups, buckets, shortage, groupSize) ==
  IF shortage = <<>> THEN [groups |-> groups, buckets |-> buckets]
  ELSE DistributedBucket(buckets, shortage, groupSize,
                         RoundRobinBucket(groups, MapGet(buckets, Head(shortage)), 0,
                                          groupSize))

RECURSIVE InsertByLength(_, _)
InsertByLength(sorted, g) ==
  IF sorted = <<>> THEN <<g>>
  ELSE IF Len(g) < Len(Head(sorted)) THEN <<g>> \o sorted
  ELSE <<Head(sorted)>> \o InsertByLength(Tail(sorted), g)

\* A mutation of SortByLength that leaves the array as it is.
KeepOrder(groups) == groups

\* groups.sort((a, b) => a.length - b.length): stable, ascending by length.
RECURSIVE SortByLength(_)
SortByLength(groups) ==
  IF groups = <<>> THEN <<>>
  ELSE InsertByLength(SortByLength(Pop(groups)), Last(groups))

\* for (const g of groups) if (g.length < groupSize) { g.push(s); break; }
RECURSIVE PushFirstWithRoom(_, _, _)
PushFirstWithRoom(groups, s, groupSize) ==
  IF groups = <<>> THEN <<>>
  ELSE IF Len(Head(groups)) < groupSize
       THEN <<Append(Head(groups), Unlocked(s))>> \o Tail(groups)
       ELSE <<Head(groups)>> \o PushFirstWithRoom(Tail(groups), s, groupSize)

RECURSIVE DistributeRest(_, _, _)
\* if (groups.every(full)) break; and the rest of the loop
DistributeNext(placed, rest, groupSize) ==
  IF AllFull(placed, groupSize) THEN placed
  ELSE DistributeRest(placed, Tail(rest), groupSize)

\* A mutation of DistributeRest that stops after the first student.
DistributeRestOnce(groups, rest, groupSize) ==
  IF rest = <<>> THEN groups
  ELSE PushFirstWithRoom(SortByLength(groups), Head(rest), groupSize)

\* for (const s of rest) { groups.sort(...); push to the first group with room;
\*   if (groups.every(full)) break; }
DistributeRest(groups, rest, groupSize) ==
  IF rest = <<>> THEN groups
  ELSE DistributeNext(PushFirstWithRoom(SortByLength(groups), Head(rest), groupSize),
                      rest, groupSize)

\* A mutation of MissingOf that returns the empty list instead of null.
MissingOfNeverNull(students, programs) ==
  [isNull |-> FALSE,
   list |-> SelectSeq(programs,
              LAMBDA p : ~\E i \in 1..Len(students) : students[i].program = p)]

\* programs.filter(p => !presentPrograms.has(p)), then
\* missingPrograms.length > 0 ? missingPrograms : null
\* (null is [isNull |-> TRUE, list |-> <<>>]).
MissingOf(students, programs) ==
  [isNull |-> ~\E k \in 1..Len(programs) :
                 ~\E i \in 1..Len(students) : students[i].program = programs[k],
   list |-> SelectSeq(programs,
              LAMBDA p : ~\E i \in 1..Len(students) : students[i].program = p)]

\* groups.map((students, i) => ({ index: i + 1, students, missingPrograms }))
WithWarnings(groups, programs) ==
  ToSeq([i \in 1..Len(groups) |->
     [index |-> i, students |-> groups[i],
      missingPrograms |-> MissingOf(groups[i], programs)]])

\* A call that threw.
Threw(message) ==
  [threw |-> TRUE, error |-> message, groupSize |-> 0, numGroups |-> 0,
   programs |-> <<>>, groups |-> <<>>, asked |-> <<>>, rest |-> <<>>]

\* A mutation of GroupStudentsRun with the strict policy: more programs than
\* the group size is an error.
GroupStudentsRunStrict(students, groupSize, seed, tape) ==
  IF groupSize <= 0 \/ Len(students) = 0
       \/ Len(MapKeys(students, <<>>)) > groupSize
  THEN Threw("cannot group")
  ELSE [threw |-> FALSE, error |-> "", groupSize |-> groupSize,
        numGroups |-> 1, programs |-> SortPrograms(MapKeys(students, <<>>)),
        groups |-> WithWarnings(<<ToSeq([k \in 1..Len(students) |-> Unlocked(students[k])])>>,
                                SortPrograms(MapKeys(students, <<>>))),
        asked |-> <<>>, rest |-> <<>>]

\* groupStudents from "Distribute remaining students" on: rest is the shuffled
\* rest with the generator after it.  The run keeps the shuffled rest beside
\* the ranges drawn for.
GroupRest(groupSize, numGroups, programs, groups, rest) ==
  [threw |-> FALSE, error |-> "", groupSize |-> groupSize,
   numGroups |-> numGroups, programs |-> programs,
   groups |-> WithWarnings(DistributeRest(groups, rest.arr, groupSize), programs),
   asked |-> rest.rng.asked, rest |-> rest.arr]

\* ... after the short programs were dealt out (a2)
GroupDistributed(groupSize, numGroups, programs, rng, a2) ==
  GroupRest(groupSize, numGroups, programs, a2.groups,
            ShuffleInPlace(Flatten(ToSeq([k \in 1..Len(programs) |->
                                            MapGet(a2.buckets, programs[k])])),
                           rng))

\* ... after the programs with enough students were assigned (a1)
GroupAssigned(groupSize, numGroups, programs, rng, shortage, a1) ==
  GroupDistributed(groupSize, numGroups, programs, rng,
                   DistributeShortage(a1.groups, a1.buckets, shortage, groupSize))

\* ... after the buckets were shuffled (sh)
GroupShuffled(groupSize, numGroups, programs, sh) ==
  GroupAssigned(groupSize, numGroups, programs, sh.rng,
                SelectSeq(programs,
                          LAMBDA p : ~(Len(MapGet(sh.buckets, p)) >= numGroups)),
                AssignEnough(EmptyGroups(numGroups), sh.buckets,
                             SelectSeq(programs,
                                       LAMBDA p : Len(MapGet(sh.buckets, p)) >= numGroups),
                             groupSize))

\* ... after the programs were sorted and the generator made
GroupSorted(students, groupSize, programs, rng) ==
  GroupShuffled(groupSize, CeilDiv(Len(students), groupSize), programs,
                ShuffleBuckets(ProgramMap(students), programs, rng))

\* groupStudents(students, groupSize, seed), with the ranges its shuffles drew for.
\* For the size NaN numGroups is NaN, no group is made, no program has enough
\* students, and the first short program reads groups[0].length of undefined.
GroupStudentsRun(students, groupSize, seed, tape) ==
  IF groupSize # NaN /\ groupSize <= 0 THEN Threw("group_size must be positive")
  ELSE IF Len(students) = 0 THEN Threw("No students")
  ELSE IF groupSize = NaN
  THEN Threw("TypeError: Cannot read properties of undefined (reading 'length')")
  ELSE GroupSorted(students, groupSize, SortPrograms(MapKeys(students, <<>>)),
                   MakeRng(seed, tape))

\* What the caller sees of the run.
Returned(run) ==
  [threw |-> run.threw, error |-> run.error, groupSize |-> run.groupSize,
   numGroups |-> run.numGroups, programs |-> run.programs, groups |-> run.groups]

GroupStudents(students, groupSize, seed, tape) ==
  Returned(GroupStudentsRun(students, groupSize, seed, tape))

\* ------------------------------------ reshuffleRespectingLocksToGroupSize

\* { name: s.name, program: s.program, locked: true }
Locked(s) == [name |-> s.name, program |-> s.program, locked |-> TRUE]

\* g.students.filter(s => s.locked)
LockedOf(students) == SelectSeq(students, LAMBDA s : s.locked)

\* every student of the groups, in group order
AllStudents(groups) ==
  Flatten(ToSeq([i \in 1..Len(groups) |-> groups[i].students]))

\* counts[p] || 0
CountOf(students, p) == Len(SelectSeq(students, LAMBDA s : s.program = p))

\* A mutation of LockedGroups that keeps the groups without locked students,
\* so that every cohort is placed at the index of its group.
LockedGroupsUnfiltered(groups) ==
  ToSeq([i \in 1..Len(groups) |-> [idx |-> i - 1, locked |-> LockedOf(groups[i].students)]])

\* groups.map((g, idx) => ({ idx, locked: ... })).filter(x => x.locked.length > 0)
LockedGroups(groups) ==
  SelectSeq(ToSeq([i \in 1..Len(groups) |->
              [idx |-> i - 1, locked |-> LockedOf(groups[i].students)]]),
            LAMBDA x : Len(x.locked) > 0)

\* A mutation of PlaceCohorts that deals the pinned students out one by one.
RECURSIVE DealOut(_, _, _)
DealOut(result, students, k) ==
  IF students = <<>> THEN result
  ELSE DealOut(SubSeq(result, 1, k) \o <<Append(result[k + 1], Locked(Head(students)))>>
                 \o SubSeq(result, k + 2, Len(result)),
               Tail(students), (k + 1) % Len(result))

PlaceCohortsSplit(result, lockedGroups) ==
  DealOut(result,
          Flatten(ToSeq([i \in 1..Len(lockedGroups) |-> lockedGroups[i].locked])), 0)

\* A mutation of PlaceCohorts that pushes the pinned students without their pin.
PlaceCohortsUnpinned(result, lockedGroups) ==
  ToSeq([i \in 1..Len(result) |->
     IF i <= Len(lockedGroups)
     THEN result[i] \o ToSeq([k \in 1..Len(lockedGroups[i].locked) |->
                                Unlocked(lockedGroups[i].locked[k])])
     ELSE result[i]])

\* for (let i = 0; i < lockedGroups.length; i++)
\*   for (const s of lockedGroups[i].locked) result[i].push({ ..., locked: true })
PlaceCohorts(result, lockedGroups) ==
  ToSeq([i \in 1..Len(result) |->
     IF i <= Len(lockedGroups)
     THEN result[i] \o ToSeq([k \in 1..Len(lockedGroups[i].locked) |->
                                Locked(lockedGroups[i].locked[k])])
     ELSE result[i]])

\* queues: an object keyed by program, in insertion order, of the unlocked pool.
Queues(unlockedPool) == MapOf(MapKeys(unlockedPool, <<>>), unlockedPool)

\* Object.keys(queues)
QueueKeys(queues) == ToSeq([k \in 1..Len(queues) |-> queues[k].key])

HasKey(queues, p) == \E k \in 1..Len(queues) : queues[k].key = p

HasProgram(students, p) == \E k \in 1..Len(students) : students[k].program = p

\* A mutation of FillGroup that fills in the first missing program only.
FillGroupOnce(group, queues, missing, groupSize) ==
  IF missing = <<>> \/ Len(group) >= groupSize
  THEN [group |-> group, queues |-> queues]
  ELSE IF ~HasKey(queues, Head(missing)) \/ Len(MapGet(queues, Head(missing))) = 0
  THEN [group |-> group, queues |-> queues]
  ELSE [group |-> Append(group, Unlocked(Last(MapGet(queues, Head(missing))))),
        queues |-> MapPut(queues, Head(missing), Pop(MapGet(queues, Head(missing))))]

\* for (const p of missing) { if (result[i].length >= groupSize) break;
\*   const q = queues[p]; if (!q || q.length === 0) continue;
\*   result[i].push({ ...q.pop(), locked: false }); }
RECURSIVE FillGroup(_, _, _, _)
FillGroup(group, queues, missing, groupSize) ==
  IF missing = <<>> \/ Len(group) >= groupSize
  THEN [group |-> group, queues |-> queues]
  ELSE LET p == Head(missing)
       IN  IF ~HasKey(queues, p) \/ Len(MapGet(queues, p)) = 0
           THEN FillGroup(group, queues, Tail(missing), groupSize)
           ELSE FillGroup(Append(group, Unlocked(Last(MapGet(queues, p)))),
                          MapPut(queues, p, Pop(MapGet(queues, p))),
                          Tail(missing), groupSize)

\* for (let i = 0; i < targetNumGroups; i++) {
\*   const missing = programsWithEnough.filter(p => !presentPerGroup[i].has(p)); ... }
RECURSIVE FillMissing(_, _, _, _, _)
\* the rest of the loop, after group i was filled (f)
FilledGroup(result, i, enough, groupSize, f) ==
  FillMissing(SubSeq(result, 1, i) \o <<f.group>> \o SubSeq(result, i + 2, Len(result)),
              f.queues, i + 1, enough, groupSize)

FillMissing(result, queues, i, enough, groupSize) ==
  IF i >= Len(result) THEN [result |-> result, queues |-> queues]
  ELSE FilledGroup(result, i, enough, groupSize,
                   FillGroup(result[i + 1], queues,
                             SelectSeq(enough, LAMBDA p : ~HasProgram(result[i + 1], p)),
                             groupSize))

HasLocks(students) == \E k \in 1..Len(students) : students[k].locked

\* A mutation of OrderCompare that orders the groups by length alone.
OrderCompareBySize(result, a, b) == Len(result[a + 1]) - Len(result[b + 1])

\* the comparator of targetOrder: negative when a sorts before b
OrderCompare(result, a, b) ==
  IF HasLocks(result[a + 1]) = HasLocks(result[b + 1])
  THEN Len(result[a + 1]) - Len(result[b + 1])
  ELSE IF HasLocks(result[a + 1]) THEN 1 ELSE -1

RECURSIVE InsertIndex(_, _, _)
InsertIndex(result, sorted, a) ==
  IF sorted = <<>> THEN <<a>>
  ELSE IF OrderCompare(result, a, Head(sorted)) < 0 THEN <<a>> \o sorted
  ELSE <<Head(sorted)>> \o InsertIndex(result, Tail(sorted), a)

\* Array.from({ length: n }, (_, i) => i).sort(comparator): stable
RECURSIVE TargetOrder(_, _)
TargetOrder(result, n) ==
  IF n = 0 THEN <<>>
  ELSE InsertIndex(result, TargetOrder(result, n - 1), n - 1)

\* for (const idx of targetOrder) if (result[idx].length < groupSize) { push; break; }
RECURSIVE FirstWithRoom(_, _, _)
FirstWithRoom(result, order, groupSize) ==
  IF order = <<>> THEN -1
  ELSE IF Len(result[Head(order) + 1]) < groupSize THEN Head(order)
  ELSE FirstWithRoom(result, Tail(order), groupSize)

\* A mutation of PlaceLeftover that stops at the first student.
PlaceLeftoverOnce(result, leftover, order, groupSize) ==
  IF leftover = <<>> THEN result
  ELSE LET idx == FirstWithRoom(result, order, groupSize)
       IN  IF idx < 0 THEN result
           ELSE PushTo(result, idx + 1, Unlocked(Head(leftover)))

\* for (const s of leftover) { ... if (!placed) break; }
RECURSIVE PlaceLeftover(_, _, _, _)
PlaceLeftover(result, leftover, order, groupSize) ==
  IF leftover = <<>> THEN result
  ELSE LET idx == FirstWithRoom(result, order, groupSize)
       IN  IF idx < 0 THEN result
           ELSE PlaceLeftover(PushTo(result, idx + 1, Unlocked(Head(leftover))),
                              Tail(leftover), order, groupSize)

\* A call that threw, or one that returned the groups.
RepartitionThrew(message) ==
  [threw |-> TRUE, error |-> message, groups |-> <<>>, asked |-> <<>>, leftover |-> <<>>]

\* The repartitioner from "Place remaining" on: leftover is the shuffled
\* leftover with the generator after it.  The run keeps the shuffled leftover
\* beside the ranges drawn for.
ReshuffleLeftover(programs, groupSize, result, order, leftover) ==
  [threw |-> FALSE, error |-> "",
   groups |-> WithWarnings(PlaceLeftover(result, leftover.arr, order, groupSize), programs),
   asked |-> leftover.rng.asked, leftover |-> leftover.arr]

\* ... after the groups were filled with their missing programs (filled)
ReshuffleFilled(programs, groupSize, target, rng, filled) ==
  ReshuffleLeftover(programs, groupSize, filled.result,
                    TargetOrder(filled.result, target),
                    ShuffleInPlace(Flatten(ToSeq([k \in 1..Len(filled.queues) |->
                                                    filled.queues[k].value])),
                                   rng))

\* ... after the queues were shuffled (sh)
ReshuffleShuffled(programs, groupSize, target, placed, enough, sh) ==
  ReshuffleFilled(programs, groupSize, target, sh.rng,
                  FillMissing(placed, sh.buckets, 0, enough, groupSize))

\* ... after the queues of the unlocked pool were built
ReshuffleQueued(programs, groupSize, target, placed, enough, rng, queues) ==
  ReshuffleShuffled(programs, groupSize, target, placed, enough,
                    ShuffleBuckets(queues, QueueKeys(queues), rng))

\* A mutation of ReshuffleTo that also refuses as many cohorts as target groups.
ReshuffleToStrict(all, lockedGroups, programs, groupSize, rng, target) ==
  IF Len(lockedGroups) >= target
  THEN RepartitionThrew("Too many groups with locked students to merge without moving them.")
  ELSE ReshuffleQueued(programs, groupSize, target,
                       PlaceCohorts(EmptyGroups(target), lockedGroups),
                       SelectSeq(programs, LAMBDA p : CountOf(all, p) >= target),
                       rng, Queues(SelectSeq(all, LAMBDA s : ~s.locked)))

\* ... after targetNumGroups was computed
ReshuffleTo(all, lockedGroups, programs, groupSize, rng, target) ==
  IF Len(lockedGroups) > target
  THEN RepartitionThrew("Too many groups with locked students to merge without moving them.")
  ELSE ReshuffleQueued(programs, groupSize, target,
                       PlaceCohorts(EmptyGroups(target), lockedGroups),
                       SelectSeq(programs, LAMBDA p : CountOf(all, p) >= target),
                       rng, Queues(SelectSeq(all, LAMBDA s : ~s.locked)))

\* ... for all the students and the groups with locked students
ReshuffleAll(all, lockedGroups, programs, groupSize, rng) ==
  IF groupSize = NaN /\ Len(lockedGroups) > 0
  THEN RepartitionThrew("TypeError: Cannot read properties of undefined (reading 'push')")
  ELSE IF groupSize = NaN
  THEN [threw |-> FALSE, error |-> "", groups |-> <<>>, asked |-> <<>>, leftover |-> <<>>]
  ELSE IF groupSize = 0 /\ Len(all) > 0 THEN RepartitionThrew("Invalid array length")
  ELSE IF groupSize = 0
  THEN [threw |-> FALSE, error |-> "", groups |-> <<>>, asked |-> <<>>, leftover |-> <<>>]
  ELSE ReshuffleTo(all, lockedGroups, programs, groupSize, rng,
                   IF groupSize > 0 THEN Max(1, CeilDiv(Len(all), groupSize)) ELSE 1)

\* reshuffleRespectingLocksToGroupSize(groups, programs, groupSize, seed), with
\* the ranges its shuffles drew for.  groupSize is an integer: for 0 the
\* target count is Infinity (Array.from throws a RangeError) or, with no
\* student, NaN (no group is made); for a negative size it is max(1, <= 0) = 1.
\* For the size NaN the target count is NaN: no group is made, a locked cohort
\* is pushed to result[0] of undefined, and without one no student is placed.
ReshuffleRun(groups, programs, groupSize, seed, tape) ==
  ReshuffleAll(AllStudents(groups), LockedGroups(groups), programs, groupSize,
               MakeRng(seed, tape))

\* What the caller sees of the run.
Reshuffled(run) == [threw |-> run.threw, error |-> run.error, groups |-> run.groups]

ReshuffleRespectingLocksToGroupSize(groups, programs, groupSize, seed, tape) ==
  Reshuffled(ReshuffleRun(groups, programs, groupSize, seed, tape))

\* -------------------------------------------------------- lockedStayInPlace

\* key(s): `${s.name}:::${s.program}`, as the pair it is built from
Key(s) == <<s.name, s.program>>

\* g.students.filter(s => s.locked).map(key)
LockedKeys(students) ==
  ToSeq([k \in 1..Len(LockedOf(students)) |-> Key(LockedOf(students)[k])])

\* cohorts: new Set(locked keys) of every prev group that has one
Cohorts(prevGroups) ==
  SelectSeq(ToSeq([i \in 1..Len(prevGroups) |-> Range(LockedKeys(prevGroups[i].students))]),
            LAMBDA set : Cardinality(set) > 0)

\* keyToCohort.get(k): the last cohort that set the key (1-based here)
KeyToCohort(cohorts, k) ==
  CHOOSE c \in 1..Len(cohorts) :
    k \in cohorts[c] /\ \A d \in (c + 1)..Len(cohorts) : k \notin cohorts[d]

RECURSIVE CheckNext(_, _, _, _)
\* A mutation of CheckNext that does not look for two cohorts in one group.
CheckNextAllowMerge(cohorts, nextGroups, i, satisfied) ==
  \A c \in 1..Len(cohorts) :
    \E g \in 1..Len(nextGroups) :
      cohorts[c] \subseteq Range(LockedKeys(nextGroups[g].students))

\* for (let i = 0; i < nextGroups.length; i++) { ... } return satisfied.every(Boolean)
CheckNext(cohorts, nextGroups, i, satisfied) ==
  IF i >= Len(nextGroups) THEN satisfied = 1..Len(cohorts)
  ELSE LET lockedKeys == LockedKeys(nextGroups[i + 1].students)
           ids == {KeyToCohort(cohorts, k) :
                     k \in {x \in Range(lockedKeys) : \E c \in 1..Len(cohorts) : x \in cohorts[c]}}
       IN  IF Cardinality(ids) > 1 THEN FALSE
           ELSE IF Cardinality(ids) = 1
           THEN LET cid == CHOOSE c \in ids : TRUE
                IN  IF \E k \in cohorts[cid] : k \notin Range(lockedKeys) THEN FALSE
                    ELSE IF cid \in satisfied THEN FALSE
                    ELSE CheckNext(cohorts, nextGroups, i + 1, satisfied \cup {cid})
           ELSE CheckNext(cohorts, nextGroups, i + 1, satisfied)

LockedStayInPlace(prevGroups, nextGroups) ==
  IF Len(Cohorts(prevGroups)) = 0 THEN TRUE
  ELSE CheckNext(Cohorts(prevGroups), nextGroups, 0, {})

\* ------------------------------------------------- inputs of the core calls

\* A roster: the k-th student carries the k-th name and any program.
RosterOf(progs) ==
  ToSeq([k \in 1..Len(progs) |-> [name |-> NameOrder[k], program |-> progs[k]]])

\* The roster of six over three programs, two students each.
ScenarioRoster == RosterOf(<<"CS", "Math", "Physics", "CS", "Math", "Physics">>)

Rosters ==
  {RosterOf(progs) : progs \in UNION {[1..n -> Programs] : n \in 0..MaxStudents}}
    \cup {ScenarioRoster}

\* The ways to cut n students into g consecutive groups (some may be empty).
RECURSIVE Cuts(_, _)
Cuts(n, g) ==
  IF g = 0 THEN (IF n = 0 THEN {<<>>} ELSE {})
  ELSE UNION {{<<k>> \o rest : rest \in Cuts(n - k, g - 1)} : k \in 0..n}

RECURSIVE CutGroups(_, _, _)
CutGroups(students, cut, index) ==
  IF cut = <<>> THEN <<>>
  ELSE <<[index |-> index, students |-> SubSeq(students, 1, Head(cut))]>>
         \o CutGroups(SubSeq(students, Head(cut) + 1, Len(students)), Tail(cut), index + 1)

PartitionPrograms ==
  {ProgramOrder[i] : i \in 1..Min(MaxPartitionPrograms, Len(ProgramOrder))}

\* A partition as currentPayload() reads it off the page: groups of students
\* with distinct names, any programs, any lock flags.
Partitions ==
  UNION {UNION {{CutGroups(
                   ToSeq([k \in 1..n |-> [name |-> NameOrder[k], program |-> progs[k],
                                          locked |-> locks[k]]]), cut, 1) :
                   progs \in [1..n -> PartitionPrograms], locks \in [1..n -> BOOLEAN]} :
                cut \in UNION {Cuts(n, g) : g \in 1..MaxGroups}} :
         n \in 0..MaxStudents}

\* state.programs: the sorted programs of the roster the groups were built from
ProgramsOf(groups) == SortPrograms(MapKeys(AllStudents(groups), <<>>))

\* The calls of groupStudents: every roster, the sizes from -1 on, and as the
\* seed undefined or one of the seeds.
BuildInputs ==
  {[fn |-> "groupStudents", students |-> r, groups |-> <<>>, programs |-> <<>>,
    groupSize |-> gs, seed |-> sd] :
     r \in Rosters, gs \in (-1)..MaxGroupSize,
     sd \in {NoSeed} \cup {SeedOf(n) : n \in Seeds}}

\* The calls of the repartitioner: every partition, the sizes from 0 on, and
\* as the seed undefined or 1.
RepartitionInputs ==
  {[fn |-> "reshuffleRespectingLocksToGroupSize", students |-> <<>>, groups |-> g,
    programs |-> ProgramsOf(g), groupSize |-> gs, seed |-> sd] :
     g \in Partitions, gs \in 0..MaxGroupSize, sd \in {NoSeed, SeedOf(1)}}

NotCalled == [threw |-> FALSE, error |-> "not called", groups |-> <<>>]

\* The Math.random() tapes to try for a call: one per outcome of the draws the
\* call makes (the ranges of its draws do not depend on the values drawn).  A
\* seeded repartition never reads the tape.
BuildTapes(in) ==
  TapesFor(GroupStudentsRun(in.students, in.groupSize, NoSeed, <<>>).asked)

RepartitionTapes(in) ==
  IF in.seed.given THEN {<<>>}
  ELSE TapesFor(ReshuffleRun(in.groups, in.programs, in.groupSize, NoSeed, <<>>).asked)

\* ------------------------------------------- specifications of the core calls

\* No page: the core calls are made on their own.
UiIdle ==
  /\ csvText = <<>>
  /\ sizeField = 0
  /\ seedField = NoSeed
  /\ state = [programs |-> <<>>, groupSize |-> 0, groups |-> <<>>, lastCsvText |-> <<>>]
  /\ dom = <<>>
  /\ dragged = ""
  /\ banner = ""
  /\ event = [op |-> "none", size |-> 0, outcome |-> "none", overfilled |-> FALSE]
  /\ steps = 0

CoreInit ==
  /\ input \in BuildInputs \cup RepartitionInputs
  /\ out = NotCalled
  /\ again = NotCalled
  /\ calls = 0
  /\ UiIdle

\* groupStudents(students, groupSize, seed) is called.
Build ==
  /\ input.fn = "groupStudents"
  /\ calls = 0
  /\ \E tape \in BuildTapes(input) :
       out' = GroupStudents(input.students, input.groupSize, input.seed, tape)
  /\ calls' = 1
  /\ UNCHANGED <<input, again>>
  /\ UNCHANGED uiVars

\* The same call is made once more with a numeric seed.
BuildAgain ==
  /\ input.fn = "groupStudents"
  /\ calls = 1
  /\ input.seed.given
  /\ \E tape \in BuildTapes(input) :
       again' = GroupStudents(input.students, input.groupSize, input.seed, tape)
  /\ calls' = 2
  /\ UNCHANGED <<input, out>>
  /\ UNCHANGED uiVars

\* reshuffleRespectingLocksToGroupSize(groups, programs, groupSize, seed) is called.
Repartition ==
  /\ input.fn = "reshuffleRespectingLocksToGroupSize"
  /\ calls = 0
  /\ \E tape \in RepartitionTapes(input) :
       out' = ReshuffleRespectingLocksToGroupSize(input.groups, input.programs,
                                                  input.groupSize, input.seed, tape)
  /\ calls' = 1
  /\ UNCHANGED <<input, again>>
  /\ UNCHANGED uiVars

CoreNext == Build \/ BuildAgain \/ Repartition

\* The core calls on every input within the bounds.
SpecCore == CoreInit /\ [][CoreNext]_vars

\* What lockedStayInPlace is handed: every student is absent (place 0) or in
\* one of the groups, locked or not; the names are distinct.
Arrangement(place, locks) ==
  ToSeq([i \in 1..MaxGroups |->
     [index |-> i,
      students |->
        SelectSeq(ToSeq([k \in 1..MaxCheckStudents |->
                           [name |-> NameOrder[k],
                            program |-> ProgramOrder[((k - 1) % Len(ProgramOrder)) + 1],
                            locked |-> locks[k]]]),
                  LAMBDA s : \E k \in 1..MaxCheckStudents :
                               s.name = NameOrder[k] /\ place[k] = i)]])

Arrangements ==
  {Arrangement(place, locks) :
     place \in [1..MaxCheckStudents -> 0..MaxGroups],
     locks \in [1..MaxCheckStudents -> BOOLEAN]}

\* The calls of lockedStayInPlace: every pair of arrangements.
CheckInputs ==
  {[fn |-> "lockedStayInPlace", students |-> <<>>, groups |-> prev,
    programs |-> <<>>, groupSize |-> 0, seed |-> NoSeed,
    nextGroups |-> next] : prev \in Arrangements, next \in Arrangements}

CheckInit ==
  /\ input \in CheckInputs
  /\ out = NotCalled
  /\ again = NotCalled
  /\ calls = 0
  /\ UiIdle

\* lockedStayInPlace(prevGroups, nextGroups) is called.
Check ==
  /\ input.fn = "lockedStayInPlace"
  /\ calls = 0
  /\ out' = [threw |-> FALSE, error |-> "", groups |-> <<>>,
             value |-> LockedStayInPlace(input.groups, input.nextGroups)]
  /\ calls' = 1
  /\ UNCHANGED <<input, again>>
  /\ UNCHANGED uiVars

\* lockedStayInPlace on every pair of arrangements within the bounds.
SpecCheck == CheckInit /\ [][Check]_vars

\* ------------------------------- applyNewGroupSize: repartition, then check

\* The students of a page on which names may repeat.
MaxTwinStudents == 3

TwinNames == {"Ada", "Bob"}

\* A partition as currentPayload() reads it off a page on which two items may
\* carry the same name, and the same program too.
TwinPartitions ==
  UNION {UNION {{CutGroups(
                   ToSeq([k \in 1..n |-> [name |-> names[k], program |-> progs[k],
                                          locked |-> locks[k]]]), cut, 1) :
                   names \in [1..n -> TwinNames], progs \in [1..n -> PartitionPrograms],
                   locks \in [1..n -> BOOLEAN]} :
                cut \in UNION {Cuts(n, g) : g \in 1..MaxGroups}} :
         n \in 1..MaxTwinStudents}

\* The repartitions applyNewGroupSize asks for: the groups on the page, the
\* programs in state, a size of 1 or more, the seed field empty or 1.
ResizeInputs ==
  {[fn |-> "applyNewGroupSize", students |-> <<>>, groups |-> g,
    programs |-> ProgramsOf(g), groupSize |-> gs, seed |-> sd] :
     g \in TwinPartitions, gs \in 1..MaxGroupSize, sd \in {NoSeed, SeedOf(1)}}

ResizeInit ==
  /\ input \in ResizeInputs
  /\ out = NotCalled
  /\ again = NotCalled
  /\ calls = 0
  /\ UiIdle

\* const groups = reshuffleRespectingLocksToGroupSize(payload.groups, ...);
\* if (!lockedStayInPlace(payload.groups, groups)) { ... return; }
Resized(prevGroups, made) ==
  [threw |-> made.threw, error |-> made.error, groups |-> made.groups,
   value |-> IF made.threw THEN FALSE ELSE LockedStayInPlace(prevGroups, made.groups)]

\* The repartition and its check, as applyNewGroupSize makes them.
Resize ==
  /\ input.fn = "applyNewGroupSize"
  /\ calls = 0
  /\ \E tape \in RepartitionTapes(input) :
       out' = Resized(input.groups,
                      ReshuffleRespectingLocksToGroupSize(input.groups, input.programs,
                                                          input.groupSize, input.seed, tape))
  /\ calls' = 1
  /\ UNCHANGED <<input, again>>
  /\ UNCHANGED uiVars

\* The repartition and its check on every page within the bounds.
SpecResize == ResizeInit /\ [][Resize]_vars

\* ------------------------------------------------ shuffleInPlace on its own

\* The longest array handed to shuffleInPlace.
MaxShuffleLen == 3

\* Values an rng can return: 0, 1/4, 1/2, 3/4 and the largest value below 1.
ShuffleDraws ==
  {<<0, 0>>, <<16384, 0>>, <<32768, 0>>, <<49152, 0>>, <<65535, 65535>>}

\* The arrays handed over (elements may repeat) with the values the rng will
\* return, one more than the longest run can ask for.
ShuffleInputs ==
  UNION {{[fn |-> "shuffleInPlace", arr |-> ToSeq(a), tape |-> ToSeq(t)] :
            a \in [1..n -> {"Ada", "Bob", "Cyd"}], t \in [1..n + 1 -> ShuffleDraws]} :
         n \in 0..MaxShuffleLen}

ShuffleInit ==
  /\ input \in ShuffleInputs
  /\ out = NotCalled
  /\ again = NotCalled
  /\ calls = 0
  /\ UiIdle

\* What a call of shuffleInPlace leaves behind: the array, the ranges asked of
\* the rng, and the values the rng has not handed out.
ShuffleOut(run) ==
  [threw |-> FALSE, error |-> "", groups |-> <<>>, arr |-> run.arr,
   asked |-> run.rng.asked, unread |-> run.rng.tape]

\* shuffleInPlace(arr, rng) is called with an rng of the caller.
Shuffle ==
  /\ input.fn = "shuffleInPlace"
  /\ calls = 0
  /\ out' = ShuffleOut(ShuffleInPlace(input.arr, MakeRng(NoSeed, input.tape)))
  /\ calls' = 1
  /\ UNCHANGED <<input, again>>
  /\ UNCHANGED uiVars

\* shuffleInPlace on every array and every rng within the bounds.
SpecShuffle == ShuffleInit /\ [][Shuffle]_vars

\* ------------------------------------------- the core calls, pass by pass

\* The call has not begun.
StepIdle == [pc |-> "call"]

\* The call is over: it threw, or it returned groups or (the check) a value.
StepThrew(message) ==
  [pc |-> "done", threw |-> TRUE, error |-> message, groups |-> <<>>, value |-> FALSE]

StepReturned(groups) ==
  [pc |-> "done", threw |-> FALSE, error |-> "", groups |-> groups, value |-> FALSE]

StepAnswered(value) ==
  [pc |-> "done", threw |-> FALSE, error |-> "", groups |-> <<>>, value |-> value]

RECURSIVE DrawAhead(_, _)
\* the values after the first (d)
DrawnAhead(d, n) == <<d.r>> \o DrawAhead(d.rng, n - 1)

\* the next n values of the generator
DrawAhead(rng, n) == IF n = 0 THEN <<>> ELSE DrawnAhead(RandomNext(rng), n)

\* const rng = mulberry32(seed), held as the values it is going to return: the
\* closure returns the same values whenever it is called.  Without a seed the
\* values are those of Math.random().
HeldRng(rng, n) ==
  IF rng.seeded THEN [rng EXCEPT !.seeded = FALSE, !.tape = DrawAhead(rng, n)]
  ELSE rng

\* groupStudents before "Distribute students from programs with shortages":
\* the programs with enough students were assigned (a1).
StepAssigned(groupSize, total, programs, rng, shortage, a1) ==
  [pc |-> "shortage", groupSize |-> groupSize, programs |-> programs,
   result |-> a1.groups, buckets |-> a1.buckets, pending |-> shortage,
   bucket |-> <<>>, g |-> 0, rng |-> HeldRng(rng, total)]

\* ... after the buckets were shuffled (sh)
StepShuffled(groupSize, total, numGroups, programs, sh) ==
  StepAssigned(groupSize, total, programs, sh.rng,
               SelectSeq(programs,
                         LAMBDA p : ~(Len(MapGet(sh.buckets, p)) >= numGroups)),
               AssignEnough(EmptyGroups(numGroups), sh.buckets,
                            SelectSeq(programs,
                                      LAMBDA p : Len(MapGet(sh.buckets, p)) >= numGroups),
                            groupSize))

\* groupStudents from its first line to the loop over the short programs
StepIntoGroupStudents(students, groupSize, rng) ==
  IF groupSize # NaN /\ groupSize <= 0 THEN StepThrew("group_size must be positive")
  ELSE IF Len(students) = 0 THEN StepThrew("No students")
  ELSE IF groupSize = NaN
  THEN StepThrew("TypeError: Cannot read properties of undefined (reading 'length')")
  ELSE StepShuffled(groupSize, Len(students), CeilDiv(Len(students), groupSize),
                    SortPrograms(MapKeys(students, <<>>)),
                    ShuffleBuckets(ProgramMap(students),
                                   SortPrograms(MapKeys(students, <<>>)), rng))

\* for (const p of programsWithShortage) { bucket = programMap.get(p); let g = 0;
\* and, after the last short program, rest is gathered and shuffled (sh)
StepRestShuffled(st, sh) ==
  [pc |-> "rest", groupSize |-> st.groupSize, programs |-> st.programs,
   result |-> st.result, rest |-> sh.arr]

StepNextShortProgram(st) ==
  IF st.pending = <<>>
  THEN StepRestShuffled(st,
         ShuffleInPlace(Flatten(ToSeq([k \in 1..Len(st.programs) |->
                                         MapGet(st.buckets, st.programs[k])])),
                        st.rng))
  ELSE [st EXCEPT !.pc = "while", !.bucket = MapGet(st.buckets, Head(st.pending)),
                  !.g = 0]

\* the while loop is left: the bucket is as the loop left it, the next short
\* program follows
StepLeaveWhile(st, groups, bucket) ==
  [st EXCEPT !.pc = "shortage", !.result = groups, !.bucket = <<>>,
             !.buckets = MapPut(st.buckets, Head(st.pending), bucket),
             !.pending = Tail(st.pending)]

\* A mutation of StepWhilePushed that leaves g where it is.
StepWhileStay(st, groups, bucket) ==
  IF AllFull(groups, st.groupSize) THEN StepLeaveWhile(st, groups, bucket)
  ELSE [st EXCEPT !.result = groups, !.bucket = bucket]

\* g = (g + 1) % numGroups; if (groups.every(full)) break;
StepWhilePushed(st, groups, bucket) ==
  IF AllFull(groups, st.groupSize) THEN StepLeaveWhile(st, groups, bucket)
  ELSE [st EXCEPT !.result = groups, !.bucket = bucket,
                  !.g = (st.g + 1) % Len(groups)]

\* one test and pass of: while (bucket.length > 0) { if (groups[g].length <
\*   groupSize) groups[g].push(bucket.pop()); ... }
StepWhile(st) ==
  IF Len(st.bucket) = 0 THEN StepLeaveWhile(st, st.result, st.bucket)
  ELSE IF Len(st.result[st.g + 1]) < st.groupSize
       THEN StepWhilePushed(st, PushTo(st.result, st.g + 1, Unlocked(Last(st.bucket))),
                            Pop(st.bucket))
       ELSE StepWhilePushed(st, st.result, st.bucket)

\* if (groups.every(full)) break; and the return after the loop
StepRestPushed(st, groups) ==
  IF AllFull(groups, st.groupSize) \/ Tail(st.rest) = <<>>
  THEN StepReturned(WithWarnings(groups, st.programs))
  ELSE [st EXCEPT !.result = groups, !.rest = Tail(st.rest)]

\* one pass of: for (const s of rest) { groups.sort(...); push; ... }
StepRest(st) ==
  IF st.rest = <<>> THEN StepReturned(WithWarnings(st.result, st.programs))
  ELSE StepRestPushed(st, PushFirstWithRoom(SortByLength(st.result), Head(st.rest),
                                            st.groupSize))

\* the repartitioner before "for (const s of leftover)": the leftover was
\* shuffled (sh) and targetOrder sorted
StepLeftoverShuffled(programs, groupSize, result, order, sh) ==
  [pc |-> "leftover", groupSize |-> groupSize, programs |-> programs,
   result |-> result, order |-> order, rest |-> sh.arr]

\* ... after the groups were filled with their missing programs (filled)
StepFilled(programs, groupSize, target, rng, filled) ==
  StepLeftoverShuffled(programs, groupSize, filled.result,
                       TargetOrder(filled.result, target),
                       ShuffleInPlace(Flatten(ToSeq([k \in 1..Len(filled.queues) |->
                                                       filled.queues[k].value])),
                                      rng))

\* ... after the queues were shuffled (sh)
StepQueuesShuffled(programs, groupSize, target, placed, enough, sh) ==
  StepFilled(programs, groupSize, target, sh.rng,
             FillMissing(placed, sh.buckets, 0, enough, groupSize))

\* ... after targetNumGroups was computed
StepTo(all, lockedGroups, programs, groupSize, rng, target) ==
  IF Len(lockedGroups) > target
  THEN StepThrew("Too many groups with locked students to merge without moving them.")
  ELSE StepQueuesShuffled(programs, groupSize, target,
                          PlaceCohorts(EmptyGroups(target), lockedGroups),
                          SelectSeq(programs, LAMBDA p : CountOf(all, p) >= target),
                          ShuffleBuckets(Queues(SelectSeq(all, LAMBDA s : ~s.locked)),
                                         QueueKeys(Queues(SelectSeq(all, LAMBDA s : ~s.locked))),
                                         rng))

\* the repartitioner from its first line to the loop over the leftover
StepIntoReshuffle(all, lockedGroups, programs, groupSize, rng) ==
  IF groupSize = NaN /\ Len(lockedGroups) > 0
  THEN StepThrew("TypeError: Cannot read properties of undefined (reading 'push')")
  ELSE IF groupSize = NaN THEN StepReturned(<<>>)
  ELSE IF groupSize = 0 /\ Len(all) > 0 THEN StepThrew("Invalid array length")
  ELSE IF groupSize = 0 THEN StepReturned(<<>>)
  ELSE StepTo(all, lockedGroups, programs, groupSize, rng,
              IF groupSize > 0 THEN Max(1, CeilDiv(Len(all), groupSize)) ELSE 1)

\* one pass of: for (const s of leftover) { ...; if (!placed) break; }
StepLeftoverPlaced(st, idx) ==
  IF idx < 0 THEN StepReturned(WithWarnings(st.result, st.programs))
  ELSE IF Tail(st.rest) = <<>>
  THEN StepReturned(WithWarnings(PushTo(st.result, idx + 1, Unlocked(Head(st.rest))),
                                 st.programs))
  ELSE [st EXCEPT !.result = PushTo(st.result, idx + 1, Unlocked(Head(st.rest))),
                  !.rest = Tail(st.rest)]

StepLeftover(st) ==
  IF st.rest = <<>> THEN StepReturned(WithWarnings(st.result, st.programs))
  ELSE StepLeftoverPlaced(st, FirstWithRoom(st.result, st.order, st.groupSize))

\* lockedStayInPlace before its loop over nextGroups
StepIntoCheck(cohorts) ==
  IF Len(cohorts) = 0 THEN StepAnswered(TRUE)
  ELSE [pc |-> "check", cohorts |-> cohorts, i |-> 0, satisfied |-> {}]

\* the end of a pass of the loop over nextGroups: the group holds keys of the
\* cohorts ids
StepCheckIds(st, lockedKeys, ids) ==
  IF Cardinality(ids) > 1 THEN StepAnswered(FALSE)
  ELSE IF Cardinality(ids) = 0 THEN [st EXCEPT !.i = st.i + 1]
  ELSE IF \E cid \in ids : \E k \in st.cohorts[cid] : k \notin Range(lockedKeys)
  THEN StepAnswered(FALSE)
  ELSE IF ids \subseteq st.satisfied THEN StepAnswered(FALSE)
  ELSE [st EXCEPT !.i = st.i + 1, !.satisfied = st.satisfied \cup ids]

\* ... the group holds the locked keys lockedKeys
StepCheckKeys(st, lockedKeys) ==
  StepCheckIds(st, lockedKeys,
               {KeyToCohort(st.cohorts, k) :
                  k \in {x \in Range(lockedKeys) :
                           \E c \in 1..Len(st.cohorts) : x \in st.cohorts[c]}})

\* one test and pass of: for (let i = 0; i < nextGroups.length; i++) { ... }
\* and return satisfied.every(Boolean)
StepCheck(st, nextGroups) ==
  IF st.i >= Len(nextGroups) THEN StepAnswered(st.satisfied = 1..Len(st.cohorts))
  ELSE StepCheckKeys(st, LockedKeys(nextGroups[st.i + 1].students))

StepsInit ==
  /\ input \in BuildInputs \cup RepartitionInputs \cup CheckInputs
  /\ out = StepIdle
  /\ again = NotCalled
  /\ calls = 0
  /\ UiIdle

\* groupStudents is entered and runs up to its loop over the short programs.
EnterGroupStudents ==
  /\ input.fn = "groupStudents"
  /\ out.pc = "call"
  /\ \E tape \in BuildTapes(input) :
       out' = StepIntoGroupStudents(input.students, input.groupSize,
                                    MakeRng(input.seed, tape))
  /\ calls' = 1
  /\ UNCHANGED <<input, again>>
  /\ UNCHANGED uiVars

\* The loop over the short programs takes its next program, or is over.
NextShortProgram ==
  /\ out.pc = "shortage"
  /\ out' = StepNextShortProgram(out)
  /\ UNCHANGED <<input, again, calls>>
  /\ UNCHANGED uiVars

\* The while loop over a short program's bucket makes one pass.
WhilePass ==
  /\ out.pc = "while"
  /\ out' = StepWhile(out)
  /\ UNCHANGED <<input, again, calls>>
  /\ UNCHANGED uiVars

\* The loop over the remaining students makes one pass.
RestPass ==
  /\ out.pc = "rest"
  /\ out' = StepRest(out)
  /\ UNCHANGED <<input, again, calls>>
  /\ UNCHANGED uiVars

\* The repartitioner is entered and runs up to its loop over the leftover.
EnterReshuffle ==
  /\ input.fn = "reshuffleRespectingLocksToGroupSize"
  /\ out.pc = "call"
  /\ \E tape \in RepartitionTapes(input) :
       out' = StepIntoReshuffle(AllStudents(input.groups), LockedGroups(input.groups),
                                input.programs, input.groupSize,
                                MakeRng(input.seed, tape))
  /\ calls' = 1
  /\ UNCHANGED <<input, again>>
  /\ UNCHANGED uiVars

\* The loop over the leftover makes one pass.
LeftoverPass ==
  /\ out.pc = "leftover"
  /\ out' = StepLeftover(out)
  /\ UNCHANGED <<input, again, calls>>
  /\ UNCHANGED uiVars

\* lockedStayInPlace is entered.
EnterCheck ==
  /\ input.fn = "lockedStayInPlace"
  /\ out.pc = "call"
  /\ out' = StepIntoCheck(Cohorts(input.groups))
  /\ calls' = 1
  /\ UNCHANGED <<input, again>>
  /\ UNCHANGED uiVars

\* The loop over nextGroups makes one pass.
CheckPass ==
  /\ out.pc = "check"
  /\ out' = StepCheck(out, input.nextGroups)
  /\ UNCHANGED <<input, again, calls>>
  /\ UNCHANGED uiVars

StepsNext ==
  \/ EnterGroupStudents \/ NextShortProgram \/ WhilePass \/ RestPass
  \/ EnterReshuffle \/ LeftoverPass
  \/ EnterCheck \/ CheckPass

\* a loop of a call that was entered makes a pass
LoopPass == NextShortProgram \/ WhilePass \/ RestPass \/ LeftoverPass \/ CheckPass

\* The core calls pass by pass.  A call runs on the one thread of the page and
\* nothing suspends it: once it is entered, a pass that can be made is made.
SpecSteps == StepsInit /\ [][StepsNext]_vars /\ WF_vars(LoopPass)

\* ------------------------------------ the core calls on a store of references

\* A store holds what the references of a call stand for: obj[o] is the
\* object with the reference o, arr[a] the array with the reference a (its
\* elements are references).  A call is handed references of the caller and
\* allocates what it creates behind them.
SetArray(st, a, items) ==
  [obj |-> st.obj,
   arr |-> SubSeq(st.arr, 1, a - 1) \o <<items>> \o SubSeq(st.arr, a + 1, Len(st.arr))]

\* [], Array.from(...), a.filter(...), a.map(...): a new array, with its reference
FreshArray(st) ==
  [st |-> [obj |-> st.obj, arr |-> Append(st.arr, <<>>)], ref |-> Len(st.arr) + 1]

\* a.push(x)
PushRef(st, a, x) == SetArray(st, a, Append(st.arr[a], x))

\* a.pop()
PopRef(st, a) == SetArray(st, a, Pop(st.arr[a]))

\* a.push({ ... }): the object literal is a new object
PushNew(st, a, rec) ==
  PushRef([obj |-> Append(st.obj, rec), arr |-> st.arr], a, Len(st.obj) + 1)

\* the objects of the array a
ObjectsOf(st, a) == ToSeq([k \in 1..Len(st.arr[a]) |-> st.obj[st.arr[a][k]]])

\* the arrays of objects of the array of arrays ga
ArraysOf(st, ga) == ToSeq([i \in 1..Len(st.arr[ga]) |-> ObjectsOf(st, st.arr[ga][i])])

\* programMap as entries [key, ref] in insertion order
RefHas(map, p) == \E k \in 1..Len(map) : map[k].key = p

RefGet(map, p) == map[CHOOSE k \in 1..Len(map) : map[k].key = p].ref

RECURSIVE RefProgramMap(_, _, _, _)
\* programMap.set(s.program, []) with the new array al, and the push
RefMapSet(al, map, list, i, s) ==
  RefProgramMap(PushNew(al.st, al.ref, [name |-> s.name, program |-> s.program]),
                Append(map, [key |-> s.program, ref |-> al.ref]), list, i + 1)

\* if (!programMap.has(s.program)) ...; programMap.get(s.program).push({ ...s })
RefMapPush(st, map, list, i, s) ==
  IF RefHas(map, s.program)
  THEN RefProgramMap(PushNew(st, RefGet(map, s.program),
                             [name |-> s.name, program |-> s.program]),
                     map, list, i + 1)
  ELSE RefMapSet(FreshArray(st), map, list, i, s)

\* for (const s of students) { ... }, from the element i on
RefProgramMap(st, map, list, i) ==
  IF i > Len(st.arr[list]) THEN [st |-> st, map |-> map]
  ELSE RefMapPush(st, map, list, i, st.obj[st.arr[list][i]])

RECURSIVE RefShuffleArrays(_, _, _)
\* the rest of the loop, after the first array was shuffled (sh)
RefShuffledArray(st, refs, sh) ==
  RefShuffleArrays(SetArray(st, Head(refs), sh.arr), Tail(refs), sh.rng)

\* for (const p of programs) shuffleInPlace(programMap.get(p), rng)
RefShuffleArrays(st, refs, rng) ==
  IF refs = <<>> THEN [st |-> st, rng |-> rng]
  ELSE RefShuffledArray(st, refs, ShuffleInPlace(st.arr[Head(refs)], rng))

RECURSIVE RefEmptyGroups(_, _, _)
\* the rest of Array.from, after a new [] (al)
RefEmptyGroup(al, ga, n) == RefEmptyGroups(PushRef(al.st, ga, al.ref), ga, n - 1)

\* Array.from({ length: n }, () => []) into the new array ga
RefEmptyGroups(st, ga, n) ==
  IF n <= 0 THEN st ELSE RefEmptyGroup(FreshArray(st), ga, n)

\* ... with the new array al for the groups
RefGroupsArray(al, n) == [st |-> RefEmptyGroups(al.st, al.ref, n), ref |-> al.ref]

\* groups.every(gr => gr.length >= groupSize)
RefAllFull(st, ga, groupSize) ==
  \A i \in 1..Len(st.arr[ga]) : Len(st.arr[st.arr[ga][i]]) >= groupSize

\* to.push({ ...b.pop(), locked: false })
RefMove(st, to, b) ==
  PushNew(PopRef(st, b), to, Unlocked(st.obj[Last(st.arr[b])]))

\* for (let g = 0; g < numGroups; g++)
\*   if (groups[g].length < groupSize && bucket.length > 0) groups[g].push(...)
RECURSIVE RefFillFromBucket(_, _, _, _, _)
RefFillFromBucket(st, ga, b, g, groupSize) ==
  IF g >= Len(st.arr[ga]) THEN st
  ELSE IF Len(st.arr[st.arr[ga][g + 1]]) < groupSize /\ Len(st.arr[b]) > 0
       THEN RefFillFromBucket(RefMove(st, st.arr[ga][g + 1], b), ga, b, g + 1, groupSize)
       ELSE RefFillFromBucket(st, ga, b, g + 1, groupSize)

\* for (const p of programsWithEnough) { ... }
RECURSIVE RefAssignEnough(_, _, _, _)
RefAssignEnough(st, ga, buckets, groupSize) ==
  IF buckets = <<>> THEN st
  ELSE RefAssignEnough(RefFillFromBucket(st, ga, Head(buckets), 0, groupSize),
                       ga, Tail(buckets), groupSize)

RECURSIVE RefRoundRobin(_, _, _, _, _)
\* g = (g + 1) % numGroups; if (groups.every(full)) break;
RefRoundRobinNext(st, ga, b, g, groupSize) ==
  IF RefAllFull(st, ga, groupSize) THEN st
  ELSE RefRoundRobin(st, ga, b, (g + 1) % Len(st.arr[ga]), groupSize)

\* while (bucket.length > 0) { ... }
RefRoundRobin(st, ga, b, g, groupSize) ==
  IF Len(st.arr[b]) = 0 THEN st
  ELSE IF Len(st.arr[st.arr[ga][g + 1]]) < groupSize
       THEN RefRoundRobinNext(RefMove(st, st.arr[ga][g + 1], b), ga, b, g, groupSize)
       ELSE RefRoundRobinNext(st, ga, b, g, groupSize)

\* for (const p of programsWithShortage) { ... }
RECURSIVE RefDistributeShortage(_, _, _, _)
RefDistributeShortage(st, ga, buckets, groupSize) ==
  IF buckets = <<>> THEN st
  ELSE RefDistributeShortage(RefRoundRobin(st, ga, Head(buckets), 0, groupSize),
                             ga, Tail(buckets), groupSize)

RECURSIVE RefInsertByLength(_, _, _)
RefInsertByLength(st, sorted, a) ==
  IF sorted = <<>> THEN <<a>>
  ELSE IF Len(st.arr[a]) < Len(st.arr[Head(sorted)]) THEN <<a>> \o sorted
  ELSE <<Head(sorted)>> \o RefInsertByLength(st, Tail(sorted), a)

RECURSIVE RefSortedByLength(_, _)
RefSortedByLength(st, refs) ==
  IF refs = <<>> THEN <<>>
  ELSE RefInsertByLength(st, RefSortedByLength(st, Pop(refs)), Last(refs))

\* groups.sort((a, b) => a.length - b.length): the array groups is sorted in place
RefSortByLength(st, ga) == SetArray(st, ga, RefSortedByLength(st, st.arr[ga]))

\* for (const g of groups) if (g.length < groupSize) { g.push({ ...s, locked: false }); break; }
RECURSIVE RefPushFirstWithRoom(_, _, _, _, _)
RefPushFirstWithRoom(st, ga, k, s, groupSize) ==
  IF k > Len(st.arr[ga]) THEN st
  ELSE IF Len(st.arr[st.arr[ga][k]]) < groupSize
       THEN PushNew(st, st.arr[ga][k], Unlocked(s))
       ELSE RefPushFirstWithRoom(st, ga, k + 1, s, groupSize)

RECURSIVE RefDistributeRest(_, _, _, _, _)
\* if (groups.every(full)) break; and the rest of the loop
RefDistributeNext(st, ga, rest, i, groupSize) ==
  IF RefAllFull(st, ga, groupSize) THEN st
  ELSE RefDistributeRest(st, ga, rest, i + 1, groupSize)

\* for (const s of rest) { groups.sort(...); ...; }, from the element i on
RefDistributeRest(st, ga, rest, i, groupSize) ==
  IF i > Len(st.arr[rest]) THEN st
  ELSE RefDistributeNext(RefPushFirstWithRoom(RefSortByLength(st, ga), ga, 1,
                                              st.obj[st.arr[rest][i]], groupSize),
                         ga, rest, i, groupSize)

\* A call on the store that threw, or returned the groups.
RefThrew(st, message) == [threw |-> TRUE, error |-> message, groups |-> <<>>, store |-> st]

RefReturned(st, ga, programs) ==
  [threw |-> FALSE, error |-> "", groups |-> WithWarnings(ArraysOf(st, ga), programs),
   store |-> st]

\* groupStudents from the loop over the rest on: rest was shuffled (sh)
RefGroupRest(st, ga, rest, groupSize, programs, sh) ==
  RefReturned(RefDistributeRest(SetArray(st, rest, sh.arr), ga, rest, 1, groupSize),
              ga, programs)

\* ... const rest = [] (al); rest.push(...programMap.get(p)) for every program
RefGroupRestFilled(st, ga, rest, groupSize, programs, rng) ==
  RefGroupRest(st, ga, rest, groupSize, programs, ShuffleInPlace(st.arr[rest], rng))

RefGroupDistributed(al, ga, buckets, groupSize, programs, rng) ==
  RefGroupRestFilled(SetArray(al.st, al.ref,
                       Flatten(ToSeq([k \in 1..Len(buckets) |-> al.st.arr[buckets[k]]]))),
                     ga, al.ref, groupSize, programs, rng)

\* A mutation of RefGroupAssigned that gathers the rest in the caller's list.
RefGroupAssignedInList(st, ga, buckets, shortage, groupSize, programs, rng) ==
  RefGroupDistributed([st |-> RefDistributeShortage(st, ga, shortage, groupSize), ref |-> 1],
                      ga, buckets, groupSize, programs, rng)

\* ... after the programs with enough students were assigned
RefGroupAssigned(st, ga, buckets, shortage, groupSize, programs, rng) ==
  RefGroupDistributed(FreshArray(RefDistributeShortage(st, ga, shortage, groupSize)),
                      ga, buckets, groupSize, programs, rng)

\* ... after the groups were made (gs)
RefGroupMade(gs, buckets, numGroups, groupSize, programs, rng) ==
  RefGroupAssigned(RefAssignEnough(gs.st, gs.ref,
                     SelectSeq(buckets, LAMBDA b : Len(gs.st.arr[b]) >= numGroups),
                     groupSize),
                   gs.ref, buckets,
                   SelectSeq(buckets, LAMBDA b : ~(Len(gs.st.arr[b]) >= numGroups)),
                   groupSize, programs, rng)

\* ... after the buckets were shuffled (sh)
RefGroupShuffled(sh, buckets, numGroups, groupSize, programs) ==
  RefGroupMade(RefGroupsArray(FreshArray(sh.st), numGroups), buckets, numGroups,
               groupSize, programs, sh.rng)

\* ... after the programs were sorted: buckets are the arrays of the programs
RefGroupSorted(st, buckets, total, groupSize, programs, rng) ==
  RefGroupShuffled(RefShuffleArrays(st, buckets, rng), buckets,
                   CeilDiv(total, groupSize), groupSize, programs)

\* ... after programMap was built (pm)
RefGroupMapped(pm, total, groupSize, programs, rng) ==
  RefGroupSorted(pm.st, ToSeq([k \in 1..Len(programs) |-> RefGet(pm.map, programs[k])]),
                 total, groupSize, programs, rng)

\* groupStudents(students, groupSize, seed) for an integer size: st is the
\* store of the caller and list the reference of students.
RefGroupStudents(st, list, groupSize, rng) ==
  IF groupSize <= 0 THEN RefThrew(st, "group_size must be positive")
  ELSE IF Len(st.arr[list]) = 0 THEN RefThrew(st, "No students")
  ELSE RefGroupMapped(RefProgramMap(st, <<>>, list, 1), Len(st.arr[list]), groupSize,
                      SortPrograms(MapKeys(ObjectsOf(st, list), <<>>)), rng)

\* The store of a caller of groupStudents: the student objects, and the list
\* of them as the array 1.
BuildStore(students) ==
  [obj |-> students, arr |-> <<ToSeq([i \in 1..Len(students) |-> i])>>]

\* for (const g of groups) for (const s of g.students)
\*   if (s.locked) lockedAll.push({ ...s });
\*   else unlockedPool.push({ name: s.name, program: s.program, locked: false });
\* refs are the references of the students still to come
RECURSIVE RefCollect(_, _, _, _)
RefCollect(st, lockedAll, pool, refs) ==
  IF refs = <<>> THEN st
  ELSE IF st.obj[Head(refs)].locked
       THEN RefCollect(PushNew(st, lockedAll, st.obj[Head(refs)]), lockedAll, pool, Tail(refs))
       ELSE RefCollect(PushNew(st, pool, Unlocked(st.obj[Head(refs)])), lockedAll, pool,
                       Tail(refs))

\* the references of the students of the groups, in group order
RefStudents(st, groups) ==
  Flatten(ToSeq([i \in 1..Len(st.arr[groups]) |-> st.arr[st.arr[groups][i]]]))

\* src.filter(s => s.locked).map(s => ({ ...s, locked: true })) into the new array to
RECURSIVE RefLockedCopies(_, _, _)
RefLockedCopies(st, to, refs) ==
  IF refs = <<>> THEN st
  ELSE IF st.obj[Head(refs)].locked
       THEN RefLockedCopies(PushNew(st, to, Locked(st.obj[Head(refs)])), to, Tail(refs))
       ELSE RefLockedCopies(st, to, Tail(refs))

RECURSIVE RefLockedGroups(_, _, _, _)
\* the rest of the map, with the new array al of the group i
RefLockedGroup(al, groups, i, list) ==
  RefLockedGroups(RefLockedCopies(al.st, al.ref, al.st.arr[al.st.arr[groups][i]]),
                  groups, i + 1, Append(list, [idx |-> i - 1, ref |-> al.ref]))

\* groups.map((g, idx) => ({ idx, locked: ... })), from the group i on
RefLockedGroups(st, groups, i, list) ==
  IF i > Len(st.arr[groups]) THEN [st |-> st, list |-> list]
  ELSE RefLockedGroup(FreshArray(st), groups, i, list)

\* for (const s of lockedGroups[i].locked) result[i].push({ ..., locked: true })
RECURSIVE RefPushLocked(_, _, _)
RefPushLocked(st, to, refs) ==
  IF refs = <<>> THEN st
  ELSE RefPushLocked(PushNew(st, to, Locked(st.obj[Head(refs)])), to, Tail(refs))

\* for (let i = 0; i < lockedGroups.length; i++) { ... }
RECURSIVE RefPlaceCohorts(_, _, _, _)
RefPlaceCohorts(st, ra, lockedGroups, i) ==
  IF i >= Len(lockedGroups) THEN st
  ELSE RefPlaceCohorts(RefPushLocked(st, st.arr[ra][i + 1],
                                     st.arr[lockedGroups[i + 1].ref]),
                       ra, lockedGroups, i + 1)

RECURSIVE RefQueues(_, _, _)
\* queues[s.program] = [] with the new array al, and the push of s itself
RefQueueSet(al, queues, refs) ==
  RefQueues(PushRef(al.st, al.ref, Head(refs)),
            Append(queues, [key |-> al.st.obj[Head(refs)].program, ref |-> al.ref]),
            Tail(refs))

\* for (const s of unlockedPool) (queues[s.program] ||= []).push(s)
RefQueues(st, queues, refs) ==
  IF refs = <<>> THEN [st |-> st, map |-> queues]
  ELSE IF RefHas(queues, st.obj[Head(refs)].program)
       THEN RefQueues(PushRef(st, RefGet(queues, st.obj[Head(refs)].program), Head(refs)),
                      queues, Tail(refs))
       ELSE RefQueueSet(FreshArray(st), queues, refs)

\* for (const p of missing) { if (result[i].length >= groupSize) break;
\*   const q = queues[p]; if (!q || q.length === 0) continue;
\*   result[i].push({ ...q.pop(), locked: false }); }
RECURSIVE RefFillGroup(_, _, _, _, _)
RefFillGroup(st, to, queues, missing, groupSize) ==
  IF missing = <<>> \/ Len(st.arr[to]) >= groupSize THEN st
  ELSE IF ~RefHas(queues, Head(missing)) THEN RefFillGroup(st, to, queues, Tail(missing), groupSize)
  ELSE IF Len(st.arr[RefGet(queues, Head(missing))]) = 0
  THEN RefFillGroup(st, to, queues, Tail(missing), groupSize)
  ELSE RefFillGroup(RefMove(st, to, RefGet(queues, Head(missing))), to, queues,
                    Tail(missing), groupSize)

\* for (let i = 0; i < targetNumGroups; i++) { missing = ...; ... }
RECURSIVE RefFillMissing(_, _, _, _, _, _)
RefFillMissing(st, ra, queues, i, enough, groupSize) ==
  IF i >= Len(st.arr[ra]) THEN st
  ELSE RefFillMissing(RefFillGroup(st, st.arr[ra][i + 1], queues,
                                   SelectSeq(enough,
                                     LAMBDA p : ~HasProgram(ObjectsOf(st, st.arr[ra][i + 1]), p)),
                                   groupSize),
                      ra, queues, i + 1, enough, groupSize)

\* for (const s of leftover) { ... if (!placed) break; }, from the element i on
RECURSIVE RefPlaceLeftover(_, _, _, _, _, _)
\* ... with the index idx of the first group with room
RefPlaceAt(st, ra, leftover, i, order, groupSize, idx) ==
  IF idx < 0 THEN st
  ELSE RefPlaceLeftover(PushNew(st, st.arr[ra][idx + 1],
                                Unlocked(st.obj[st.arr[leftover][i]])),
                        ra, leftover, i + 1, order, groupSize)

RefPlaceLeftover(st, ra, leftover, i, order, groupSize) ==
  IF i > Len(st.arr[leftover]) THEN st
  ELSE RefPlaceAt(st, ra, leftover, i, order, groupSize,
                  FirstWithRoom(ArraysOf(st, ra), order, groupSize))

\* the repartitioner from the loop over the leftover on: it was shuffled (sh)
RefReshuffleLeftover(st, ra, leftover, groupSize, programs, sh) ==
  RefReturned(RefPlaceLeftover(SetArray(st, leftover, sh.arr), ra, leftover, 1,
                               TargetOrder(ArraysOf(st, ra), Len(st.arr[ra])), groupSize),
              ra, programs)

\* ... const leftover = [] (al); leftover.push(...queues[p]) for every queue
RefReshuffleGathered(st, ra, leftover, groupSize, programs, rng) ==
  RefReshuffleLeftover(st, ra, leftover, groupSize, programs,
                       ShuffleInPlace(st.arr[leftover], rng))

RefReshuffleFilled(al, ra, queues, groupSize, programs, rng) ==
  RefReshuffleGathered(SetArray(al.st, al.ref,
                         Flatten(ToSeq([k \in 1..Len(queues) |-> al.st.arr[queues[k].ref]]))),
                       ra, al.ref, groupSize, programs, rng)

\* ... after the queues were shuffled (sh)
RefReshuffleShuffled(sh, ra, queues, enough, groupSize, programs) ==
  RefReshuffleFilled(FreshArray(RefFillMissing(sh.st, ra, queues, 0, enough, groupSize)),
                     ra, queues, groupSize, programs, sh.rng)

\* ... after the queues were built (q)
RefReshuffleQueued(q, ra, enough, groupSize, programs, rng) ==
  RefReshuffleShuffled(RefShuffleArrays(q.st,
                         ToSeq([k \in 1..Len(q.map) |-> q.map[k].ref]), rng),
                       ra, q.map, enough, groupSize, programs)

\* ... with the groups of lockedGroups that hold a locked student
RefReshuffleCohorts(st, locked, ra, pool, enough, groupSize, programs, rng) ==
  IF Len(locked) > Len(st.arr[ra])
  THEN RefThrew(st, "Too many groups with locked students to merge without moving them.")
  ELSE RefReshuffleQueued(RefQueues(RefPlaceCohorts(st, ra, locked, 0), <<>>, st.arr[pool]),
                          ra, enough, groupSize, programs, rng)

\* ... after lockedGroups was mapped (lg): .filter(x => x.locked.length > 0)
RefReshuffleMapped(ra, pool, enough, groupSize, programs, rng, lg) ==
  RefReshuffleCohorts(lg.st, SelectSeq(lg.list, LAMBDA x : Len(lg.st.arr[x.ref]) > 0),
                      ra, pool, enough, groupSize, programs, rng)

\* ... after result was made (rs)
RefReshuffleResult(rs, groups, pool, enough, groupSize, programs, rng) ==
  RefReshuffleMapped(rs.ref, pool, enough, groupSize, programs, rng,
                     RefLockedGroups(rs.st, groups, 1, <<>>))

\* ... after the students were collected: for the size 0 the target count is
\* Infinity (Array.from throws a RangeError) or, with no student, NaN (no
\* group is made)
RefReshuffleCollected(st, groups, lockedAll, pool, total, groupSize, programs, rng) ==
  IF groupSize = 0 /\ total > 0 THEN RefThrew(st, "Invalid array length")
  ELSE IF groupSize = 0
  THEN [threw |-> FALSE, error |-> "", groups |-> <<>>, store |-> st]
  ELSE RefReshuffleResult(
         RefGroupsArray(FreshArray(st),
                        IF groupSize > 0 THEN Max(1, CeilDiv(total, groupSize)) ELSE 1),
         groups, pool,
         SelectSeq(programs,
           LAMBDA p : CountOf(ObjectsOf(st, pool), p)
                        + CountOf(ObjectsOf(st, lockedAll), p)
                          >= (IF groupSize > 0 THEN Max(1, CeilDiv(total, groupSize)) ELSE 1)),
         groupSize, programs, rng)

\* ... with the new arrays lockedAll and unlockedPool (up)
RefReshufflePools(up, lockedAll, groups, groupSize, programs, rng) ==
  RefReshuffleCollected(RefCollect(up.st, lockedAll, up.ref, RefStudents(up.st, groups)),
                        groups, lockedAll, up.ref, Len(RefStudents(up.st, groups)),
                        groupSize,
                        programs, rng)

RefReshuffleLockedAll(la, groups, groupSize, programs, rng) ==
  RefReshufflePools(FreshArray(la.st), la.ref, groups, groupSize, programs, rng)

\* reshuffleRespectingLocksToGroupSize(groups, programs, groupSize, seed) for
\* an integer size: st is the store of the caller and groups the reference of
\* its groups.
RefReshuffle(st, groups, programs, groupSize, rng) ==
  RefReshuffleLockedAll(FreshArray(st), groups, groupSize, programs, rng)

\* The store of a caller that holds groups: the student objects in group
\* order, the groups as the array 1, and the students of the group i as the
\* array 1 + i.
RECURSIVE GroupRefs(_, _)
GroupRefs(groups, before) ==
  IF groups = <<>> THEN <<>>
  ELSE <<ToSeq([k \in 1..Len(Head(groups).students) |-> before + k])>>
         \o GroupRefs(Tail(groups), before + Len(Head(groups).students))

\* the store st with groups of the caller added, and the reference of the groups
AddGroups(st, groups) ==
  [st |-> [obj |-> st.obj \o AllStudents(groups),
           arr |-> st.arr \o <<ToSeq([i \in 1..Len(groups) |-> Len(st.arr) + 1 + i])>>
                     \o GroupRefs(groups, Len(st.obj))],
   ref |-> Len(st.arr) + 1]

GroupsStore(groups) == AddGroups([obj |-> <<>>, arr |-> <<>>], groups).st

\* The store of a caller of lockedStayInPlace: the previous groups as the
\* array 1, and the next groups after them.
CheckStore(prevGroups, nextGroups) == AddGroups(GroupsStore(prevGroups), nextGroups)

\* g.students.filter(s => s.locked) into the new array al
RefFilterLocked(al, src) ==
  SetArray(al.st, al.ref, SelectSeq(al.st.arr[src], LAMBDA o : al.st.obj[o].locked))

\* the filter of every group of the array groups, from the group i on
RECURSIVE RefFilterGroups(_, _, _)
RefFilterGroups(st, groups, i) ==
  IF i > Len(st.arr[groups]) THEN st
  ELSE RefFilterGroups(RefFilterLocked(FreshArray(st), st.arr[groups][i]), groups, i + 1)

\* the groups of the array groups, as lockedStayInPlace reads them
GroupsAt(st, groups) ==
  ToSeq([i \in 1..Len(st.arr[groups]) |->
           [index |-> i, students |-> ObjectsOf(st, st.arr[groups][i])]])

\* lockedStayInPlace(prevGroups, nextGroups) on the store: the filters make
\* new arrays, and the keys, sets and flags are values of the call.
RefLockedStayInPlace(st, prevGroups, nextGroups) ==
  [threw |-> FALSE, error |-> "", groups |-> <<>>,
   value |-> LockedStayInPlace(GroupsAt(st, prevGroups), GroupsAt(st, nextGroups)),
   store |-> RefFilterGroups(RefFilterGroups(st, prevGroups, 1), nextGroups, 1)]

RefsInit ==
  /\ input \in BuildInputs \cup RepartitionInputs \cup CheckInputs
  /\ out = NotCalled
  /\ again = NotCalled
  /\ calls = 0
  /\ UiIdle

\* groupStudents is called with the reference of the caller's list.
RefBuild ==
  /\ input.fn = "groupStudents"
  /\ calls = 0
  /\ \E tape \in BuildTapes(input) :
       out' = RefGroupStudents(BuildStore(input.students), 1, input.groupSize,
                               MakeRng(input.seed, tape))
  /\ calls' = 1
  /\ UNCHANGED <<input, again>>
  /\ UNCHANGED uiVars

\* The repartitioner is called with the reference of the caller's groups.
RefRepartition ==
  /\ input.fn = "reshuffleRespectingLocksToGroupSize"
  /\ calls = 0
  /\ \E tape \in RepartitionTapes(input) :
       out' = RefReshuffle(GroupsStore(input.groups), 1, input.programs, input.groupSize,
                           MakeRng(input.seed, tape))
  /\ calls' = 1
  /\ UNCHANGED <<input, again>>
  /\ UNCHANGED uiVars

\* lockedStayInPlace is called with the references of the caller's groups.
RefCheck ==
  /\ input.fn = "lockedStayInPlace"
  /\ calls = 0
  /\ out' = RefLockedStayInPlace(CheckStore(input.groups, input.nextGroups).st, 1,
                                 CheckStore(input.groups, input.nextGroups).ref)
  /\ calls' = 1
  /\ UNCHANGED <<input, again>>
  /\ UNCHANGED uiVars

RefsNext == RefBuild \/ RefRepartition \/ RefCheck

\* The core calls on the stores of their callers.
SpecRefs == RefsInit /\ [][RefsNext]_vars

\* ------------------------------------- docs/app.js: the strict core functions

\* groups.map((students, i) => ({ index: i + 1, students }))
DocsIndexed(groups) ==
  ToSeq([i \in 1..Len(groups) |-> [index |-> i, students |-> groups[i]]])

\* A mutation of DocsDistributeRest that stops after the first student.
DocsDistributeRestOnce(groups, rest, groupSize) ==
  IF rest = <<>> THEN groups
  ELSE PushFirstWithRoom(SortByLength(groups), Head(rest), groupSize)

\* for (const s of rest) { groups.sort((a, b) => a.length - b.length);
\*   for (const g of groups) if (g.length < groupSize) { g.push(s); break; } }
\* (docs/app.js lines 77-82 and, on result, 151-156)
RECURSIVE DocsDistributeRest(_, _, _)
DocsDistributeRest(groups, rest, groupSize) ==
  IF rest = <<>> THEN groups
  ELSE DocsDistributeRest(PushFirstWithRoom(SortByLength(groups), Head(rest), groupSize),
                          Tail(rest), groupSize)

\* for (let g = 0; g < numGroups; g++) groups[g].push({ ...bucket.pop(), locked: false })
RECURSIVE DocsTakeOne(_, _, _)
DocsTakeOne(groups, bucket, g) ==
  IF g >= Len(groups) THEN [groups |-> groups, bucket |-> bucket]
  ELSE DocsTakeOne(PushTo(groups, g + 1, Unlocked(Last(bucket))), Pop(bucket), g + 1)

\* for (const p of programs) { ... }: one of each program to every group
RECURSIVE DocsAssignAll(_, _, _)
\* the rest of the loop, after every group took from the first program's bucket
DocsAssignedBucket(buckets, programs, f) ==
  DocsAssignAll(f.groups, MapPut(buckets, Head(programs), f.bucket), Tail(programs))

DocsAssignAll(groups, buckets, programs) ==
  IF programs = <<>> THEN [groups |-> groups, buckets |-> buckets]
  ELSE DocsAssignedBucket(buckets, programs,
                          DocsTakeOne(groups, MapGet(buckets, Head(programs)), 0))

\* docs groupStudents from the shuffle of the rest on
DocsGroupRest(groupSize, numGroups, programs, groups, rest) ==
  [threw |-> FALSE, error |-> "", groupSize |-> groupSize,
   numGroups |-> numGroups, programs |-> programs,
   groups |-> DocsIndexed(DocsDistributeRest(groups, rest.arr, groupSize)),
   asked |-> rest.rng.asked]

\* ... after every group got one student of each program (a)
DocsGroupAssigned(groupSize, numGroups, programs, rng, a) ==
  DocsGroupRest(groupSize, numGroups, programs, a.groups,
                ShuffleInPlace(Flatten(ToSeq([k \in 1..Len(programs) |->
                                                MapGet(a.buckets, programs[k])])),
                               rng))

\* ... after the buckets were shuffled (sh): the feasibility check
DocsGroupShuffled(groupSize, numGroups, programs, sh) ==
  IF \E k \in 1..Len(programs) : Len(MapGet(sh.buckets, programs[k])) < numGroups
  THEN Threw("Not enough students of a program to cover the groups")
  ELSE DocsGroupAssigned(groupSize, numGroups, programs, sh.rng,
                         DocsAssignAll(EmptyGroups(numGroups), sh.buckets, programs))

\* ... after the programs were sorted and counted
DocsGroupSorted(students, groupSize, programs, rng) ==
  IF groupSize # NaN /\ Len(programs) > groupSize
  THEN Threw("group_size smaller than number of programs")
  ELSE IF groupSize = NaN
  THEN [threw |-> FALSE, error |-> "", groupSize |-> NaN, numGroups |-> NaN,
        programs |-> programs, groups |-> <<>>, asked |-> <<>>]
  ELSE DocsGroupShuffled(groupSize, CeilDiv(Len(students), groupSize), programs,
                         ShuffleBuckets(ProgramMap(students), programs, rng))

\* docs/app.js groupStudents(students, groupSize, seed), with the ranges its
\* shuffles drew for.  For the size NaN every comparison is false, numGroups is
\* NaN and the groups returned are none.
DocsGroupStudentsRun(students, groupSize, seed, tape) ==
  IF groupSize # NaN /\ groupSize <= 0 THEN Threw("group_size must be positive")
  ELSE IF Len(students) = 0 THEN Threw("No students")
  ELSE DocsGroupSorted(students, groupSize, SortPrograms(MapKeys(students, <<>>)),
                       MakeRng(seed, tape))

\* for (const p of missing) { const q = queues[p];
\*   if (!q || q.length === 0) throw new Error(...); result[i].push(q.pop()); }
RECURSIVE DocsFillGroup(_, _, _)
DocsFillGroup(group, queues, missing) ==
  IF missing = <<>> THEN [threw |-> FALSE, group |-> group, queues |-> queues]
  ELSE IF ~HasKey(queues, Head(missing)) \/ Len(MapGet(queues, Head(missing))) = 0
  THEN [threw |-> TRUE, group |-> group, queues |-> queues]
  ELSE DocsFillGroup(Append(group, Unlocked(Last(MapGet(queues, Head(missing))))),
                     MapPut(queues, Head(missing), Pop(MapGet(queues, Head(missing)))),
                     Tail(missing))

\* for (let i = 0; i < numGroups; i++) { missing = programs.filter(...);
\*   if (result[i].length + missing.length > groupSize) throw ...; ... }
RECURSIVE DocsFillMissing(_, _, _, _, _)
\* the rest of the loop, after group i was filled (f)
DocsFilledGroup(result, i, programs, groupSize, f) ==
  IF f.threw
  THEN [threw |-> TRUE, error |-> "Program queue empty", result |-> result,
        queues |-> f.queues]
  ELSE DocsFillMissing(SubSeq(result, 1, i) \o <<f.group>> \o SubSeq(result, i + 2, Len(result)),
                       f.queues, i + 1, programs, groupSize)

\* group i with the programs it misses
DocsMissingOf(result, queues, i, programs, groupSize, missing) ==
  IF groupSize # NaN /\ Len(result[i + 1]) + Len(missing) > groupSize
  THEN [threw |-> TRUE, error |-> "Group would exceed size when adding required programs",
        result |-> result, queues |-> queues]
  ELSE DocsFilledGroup(result, i, programs, groupSize,
                       DocsFillGroup(result[i + 1], queues, missing))

DocsFillMissing(result, queues, i, programs, groupSize) ==
  IF i >= Len(result)
  THEN [threw |-> FALSE, error |-> "", result |-> result, queues |-> queues]
  ELSE DocsMissingOf(result, queues, i, programs, groupSize,
                     SelectSeq(programs, LAMBDA p : ~HasProgram(result[i + 1], p)))

\* docs reshuffleRespectingLocks from the shuffle of the leftover on
DocsReshuffleLeftover(groupSize, result, leftover) ==
  [threw |-> FALSE, error |-> "",
   groups |-> DocsIndexed(DocsDistributeRest(result, leftover.arr, groupSize)),
   asked |-> leftover.rng.asked]

\* ... after the groups were filled with their missing programs (filled)
DocsReshuffleFilled(groupSize, rng, filled) ==
  IF filled.threw THEN RepartitionThrew(filled.error)
  ELSE DocsReshuffleLeftover(groupSize, filled.result,
                             ShuffleInPlace(Flatten(ToSeq([k \in 1..Len(filled.queues) |->
                                                             filled.queues[k].value])),
                                            rng))

\* ... after the queues of the unlocked pool were shuffled (sh)
DocsReshuffleQueued(programs, groupSize, result, sh) ==
  DocsReshuffleFilled(groupSize, sh.rng,
                      DocsFillMissing(result, sh.buckets, 0, programs, groupSize))

\* required = Math.max(0, numGroups - withP); (counts[p] || 0) < required
DocsShortOf(groups, unlockedPool, p) ==
  CountOf(unlockedPool, p)
    < Max(0, Len(groups)
               - Cardinality({i \in 1..Len(groups) :
                                HasProgram(LockedOf(groups[i].students), p)}))

\* ... for the unlocked pool
DocsReshufflePooled(groups, programs, groupSize, rng, unlockedPool) ==
  IF \E k \in 1..Len(programs) : DocsShortOf(groups, unlockedPool, programs[k])
  THEN RepartitionThrew("Need more unlocked students of a program to cover all groups")
  ELSE DocsReshuffleQueued(programs, groupSize,
                           ToSeq([i \in 1..Len(groups) |->
                                    ToSeq([k \in 1..Len(LockedOf(groups[i].students)) |->
                                             Locked(LockedOf(groups[i].students)[k])])]),
                           ShuffleBuckets(Queues(unlockedPool),
                                          QueueKeys(Queues(unlockedPool)), rng))

\* docs/app.js reshuffleRespectingLocks(groups, programs, groupSize, seed), with
\* the ranges its shuffles drew for.  For the size NaN every comparison with
\* it is false: nothing exceeds it and no group has room.
DocsReshuffleRun(groups, programs, groupSize, seed, tape) ==
  IF groupSize # NaN /\ \E i \in 1..Len(groups) : Len(LockedOf(groups[i].students)) > groupSize
  THEN RepartitionThrew("Group exceeds size due to locked students")
  ELSE DocsReshufflePooled(groups, programs, groupSize, MakeRng(seed, tape),
                           SelectSeq(AllStudents(groups), LAMBDA s : ~s.locked))

\* The calls of the docs functions: the inputs of the core calls, handed to
\* docs groupStudents and to docs reshuffleRespectingLocks.
DocsInputs ==
  {[fn |-> "docs groupStudents", students |-> in.students, groups |-> <<>>,
    programs |-> <<>>, groupSize |-> in.groupSize, seed |-> in.seed] : in \in BuildInputs}
    \cup {[fn |-> "docs reshuffleRespectingLocks", students |-> <<>>, groups |-> in.groups,
            programs |-> in.programs, groupSize |-> in.groupSize, seed |-> in.seed] :
             in \in RepartitionInputs}

DocsCoreInit ==
  /\ input \in DocsInputs
  /\ out = NotCalled
  /\ again = NotCalled
  /\ calls = 0
  /\ UiIdle

\* docs groupStudents(students, groupSize, seed) is called.
DocsBuild ==
  /\ input.fn = "docs groupStudents"
  /\ calls = 0
  /\ \E tape \in TapesFor(DocsGroupStudentsRun(input.students, input.groupSize,
                                                 NoSeed, <<>>).asked) :
       out' = Returned(DocsGroupStudentsRun(input.students, input.groupSize,
                                            input.seed, tape))
  /\ calls' = 1
  /\ UNCHANGED <<input, again>>
  /\ UNCHANGED uiVars

\* docs reshuffleRespectingLocks(groups, programs, groupSize, seed) is called.
DocsReshuffle ==
  /\ input.fn = "docs reshuffleRespectingLocks"
  /\ calls = 0
  /\ \E tape \in TapesFor(DocsReshuffleRun(input.groups, input.programs,
                                             input.groupSize, NoSeed, <<>>).asked) :
       out' = Reshuffled(DocsReshuffleRun(input.groups, input.programs,
                                          input.groupSize, input.seed, tape))
  /\ calls' = 1
  /\ UNCHANGED <<input, again>>
  /\ UNCHANGED uiVars

DocsCoreNext == DocsBuild \/ DocsReshuffle

\* The docs functions on every input within the bounds.
SpecDocsCore == DocsCoreInit /\ [][DocsCoreNext]_vars

\* ------------------------------------------------------------ the page: data

\* A line of the textarea is the sequence of its comma-separated cells; a
\* line of spaces only is the line without cells, <<>>.

\* The texts pasted into the textarea: nothing; a class of three under a
\* capitalised header; a class under a header in the other order, with a row
\* that has no program and a trailing blank line.
TextNone == <<>>

TextClass ==
  <<<<"Name", "Program">>, <<"Ada", "CS">>, <<"Bob", "CS">>, <<"Cyd", "Math">>>>

TextOther ==
  <<<<"program", "student">>, <<"Math", "Dee">>, <<"", "Eve">>, <<"CS", "Fay">>, <<>>>>

Texts == {TextNone, TextClass, TextOther}

\* text.trim(), on lines: the blank lines at either end go
RECURSIVE TrimText(_)
TrimText(text) ==
  IF text = <<>> THEN text
  ELSE IF Head(text) = <<>> THEN TrimText(Tail(text))
  ELSE IF Last(text) = <<>> THEN TrimText(Pop(text))
  ELSE text

\* s.trim().toLowerCase() on the header cells in use
LowerCase(cell) ==
  CASE cell = "Name" -> "name"
    [] cell = "Program" -> "program"
    [] OTHER -> cell

NameAliases == {"name", "student", "student_name", "student name"}

ProgramAliases ==
  {"program", "programme", "study_program", "study programme", "studyprogram", "major"}

\* the last index whose header is an alias, 0 for -1
AliasIndex(header, aliases) ==
  LET hits == {i \in 1..Len(header) : header[i] \in aliases}
  IN  IF hits = {} THEN 0 ELSE CHOOSE i \in hits : \A j \in hits : j <= i

\* (row[idx] || '').trim()
Cell(row, idx) == IF idx \in 1..Len(row) THEN row[idx] ELSE ""

RECURSIVE ParseRows(_, _, _)
ParseRows(rows, nameIdx, progIdx) ==
  IF rows = <<>> THEN <<>>
  ELSE LET name == Cell(Head(rows), nameIdx)
           program == Cell(Head(rows), progIdx)
           rest == ParseRows(Tail(rows), nameIdx, progIdx)
       IN  IF name = "" \/ program = "" THEN rest
           ELSE <<[name |-> name, program |-> program]>> \o rest

ParseThrew(message) == [threw |-> TRUE, error |-> message, students |-> <<>>]

\* parseCSV(text)
ParseCSV(text) ==
  LET lines == SelectSeq(text, LAMBDA l : l # <<>>)
  IN  IF Len(lines) = 0 THEN ParseThrew("Error: CSV is empty")
      ELSE
        LET header == ToSeq([i \in 1..Len(lines[1]) |-> LowerCase(lines[1][i])])
            nameFound == AliasIndex(header, NameAliases)
            progFound == AliasIndex(header, ProgramAliases)
            fallback == nameFound = 0 \/ progFound = 0
        IN  IF fallback /\ Len(header) < 2
            THEN ParseThrew("Error: Missing 'name' or 'program' header")
            ELSE
              LET students == ParseRows(Tail(lines),
                                        IF fallback THEN 1 ELSE nameFound,
                                        IF fallback THEN 2 ELSE progFound)
              IN  IF Len(students) = 0
                  THEN ParseThrew("Error: No students found in CSV")
                  ELSE [threw |-> FALSE, error |-> "", students |-> students]

\* renderGroups(groups): one .group section per group, one .student item per
\* student with its name, program and lock flag in the dataset.
Render(groups) ==
  ToSeq([i \in 1..Len(groups) |->
           ToSeq([k \in 1..Len(groups[i].students) |->
                    [name |-> groups[i].students[k].name,
                     program |-> groups[i].students[k].program,
                     locked |-> groups[i].students[k].locked]])])

\* currentPayload().groups
CurrentPayload(sections) ==
  ToSeq([i \in 1..Len(sections) |-> [index |-> i, students |-> sections[i]]])

\* A mutation of Violating that finds no group at fault.
ViolatingNone(groups, newSize) == <<>>

\* A mutation of Violating that lets one locked student too many through.
ViolatingOffByOne(groups, newSize) ==
  SelectSeq(ToSeq([i \in 1..Len(groups) |->
                     [index |-> i, locked |-> Len(LockedOf(groups[i].students))]]),
            LAMBDA x : x.locked > newSize + 1)

\* applyNewGroupSize: payloadBefore.groups.map(...).filter(x => x.locked > newSize)
Violating(groups, newSize) ==
  SelectSeq(ToSeq([i \in 1..Len(groups) |->
                     [index |-> i, locked |-> Len(LockedOf(groups[i].students))]]),
            LAMBDA x : x.locked > newSize)

\* A mutation of ViolatingByCount that counts the students that are not locked.
ViolatingByUnlocked(groups, desired) ==
  SelectSeq(ToSeq([i \in 1..Len(groups) |->
                     [index |-> i,
                      locked |-> Len(SelectSeq(groups[i].students, LAMBDA s : ~s.locked))]]),
            LAMBDA x : x.locked > desired)

\* submit handler: payload.groups.map(...).filter(x => x.locked > desired)
ViolatingByCount(groups, desired) ==
  SelectSeq(ToSeq([i \in 1..Len(groups) |->
                     [index |-> i, locked |-> Len(LockedOf(groups[i].students))]]),
            LAMBDA x : desired # NaN /\ x.locked > desired)

\* targetNumGroups < currentNumGroups, for
\* targetNumGroups = Math.max(1, Math.ceil(totalStudents / size)): Infinity or
\* NaN for size 0, NaN for the size NaN, 1 for a negative size.
TargetBelow(totalStudents, size, currentNumGroups) ==
  IF size = 0 \/ size = NaN THEN FALSE
  ELSE IF size < 0 THEN 1 < currentNumGroups
  ELSE Max(1, CeilDiv(totalStudents, size)) < currentNumGroups

\* groups.slice(targetNumGroups) ... .filter(x => x.locked > 0).length > 0
EliminatedWithLocks(groups, targetNumGroups) ==
  \E i \in 1..Len(groups) : i > targetNumGroups /\ HasLocks(groups[i].students)

\* The messages of showGroupBanner.
BannerMinSize == "Group size must be at least 1."

BannerLockedOverSize == "Cannot apply group size: some groups have more locked students than this size"

BannerEliminated == "Cannot increase group size: it would reduce the number of groups and some groups to be removed contain locked students"

BannerSplit == "Cannot increase group size: it would require splitting or moving locked students"

BannerMoved == "Cannot apply this group size because it would require moving locked students"

\* The seed the handlers hand on: els.seed.value ? parseInt(...) : undefined
SeedFields == {NoSeed, SeedOf(1)}

\* What parseInt reads from the size field after typing: a size, or NaN.
SizeFields == 0..MaxGroupSize \cup {NaN}

\* What the last handler was: its name, the size it was asked for, how it
\* ended, and whether a rendered group was larger than state.groupSize when it
\* began.
HandlerEvent(op, size, outcome, overfilled) ==
  [op |-> op, size |-> size, outcome |-> outcome, overfilled |-> overfilled]

NoEvent == HandlerEvent("none", 0, "none", FALSE)

EditEvent == HandlerEvent("edit", 0, "none", FALSE)

Overfilled ==
  state.groupSize # NaN /\ \E i \in 1..Len(dom) : Len(dom[i]) > state.groupSize

\* The page as a handler leaves it.
Page(st, sections, drag, flash, field, ev) ==
  /\ state' = st
  /\ dom' = sections
  /\ dragged' = drag
  /\ banner' = flash
  /\ sizeField' = field
  /\ event' = ev
  /\ steps' = steps + 1
  /\ UNCHANGED <<csvText, seedField>>

\* state with a new groupSize
WithSize(st, size) ==
  [programs |-> st.programs, groupSize |-> size, groups |-> st.groups,
   lastCsvText |-> st.lastCsvText]

\* state with a new groupSize and new groups
WithGroups(st, size, groups) ==
  [programs |-> st.programs, groupSize |-> size, groups |-> groups,
   lastCsvText |-> st.lastCsvText]

\* ------------------------------------------------------- the page: handlers

\* The Math.random() tapes for a repartition of the payload by a handler.
HandlerTapes(groups, size, seed) ==
  RepartitionTapes([groups |-> groups, programs |-> state.programs,
                    groupSize |-> size, seed |-> seed])

\* Generate with the CSV unchanged, from the call of the repartitioner on.
SubmitReshuffled(payload, desired, reshuffled) ==
  IF reshuffled.threw
  THEN Page(WithSize(state, desired), dom, dragged, banner, sizeField,
            HandlerEvent("generate-reshuffle", desired, "alert", Overfilled))
  ELSE IF ~LockedStayInPlace(payload, reshuffled.groups)
  THEN Page(WithSize(state, desired), dom, dragged, BannerMoved, sizeField,
            HandlerEvent("generate-reshuffle", desired, "banner", Overfilled))
  ELSE Page(WithGroups(state, desired, reshuffled.groups), Render(reshuffled.groups),
            "", "", sizeField,
            HandlerEvent("generate-reshuffle", desired, "accepted", Overfilled))

\* Generate with the CSV unchanged: the lock-respecting reshuffle of the payload.
SubmitReshuffle(payload, desired, seed) ==
  IF ViolatingByCount(payload, desired) # <<>>
  THEN Page(state, dom, dragged, BannerLockedOverSize, sizeField,
            HandlerEvent("generate-reshuffle", desired, "banner", Overfilled))
  ELSE IF /\ TargetBelow(Len(AllStudents(payload)), desired, Len(payload))
          /\ EliminatedWithLocks(payload,
                                 Max(1, CeilDiv(Len(AllStudents(payload)), desired)))
  THEN Page(state, dom, dragged, BannerEliminated, sizeField,
            HandlerEvent("generate-reshuffle", desired, "banner", Overfilled))
  ELSE \E tape \in HandlerTapes(payload, desired, seed) :
         SubmitReshuffled(payload, desired,
                          ReshuffleRespectingLocksToGroupSize(
                            payload, state.programs, desired, seed, tape))

\* Generate with a new CSV or no groups yet, from the call of groupStudents on.
SubmitBuilt(text, desired, result) ==
  IF result.threw
  THEN Page(state, dom, dragged, banner, sizeField,
            HandlerEvent("generate-fresh", desired, "alert", Overfilled))
  ELSE Page([programs |-> result.programs, groupSize |-> result.groupSize,
             groups |-> result.groups, lastCsvText |-> text],
            Render(result.groups), "", banner, sizeField,
            HandlerEvent("generate-fresh", desired, "built", Overfilled))

\* Generate with a new CSV or no groups yet, from the return of parseCSV on.
SubmitParsed(text, desired, seed, parsed) ==
  IF parsed.threw
  THEN Page(state, dom, dragged, banner, sizeField,
            HandlerEvent("generate-fresh", desired, "alert", Overfilled))
  ELSE \E tape \in (IF seed.given THEN {<<>>}
                    ELSE BuildTapes([students |-> parsed.students,
                                     groupSize |-> desired])) :
         SubmitBuilt(text, desired,
                     GroupStudents(parsed.students, desired, seed, tape))

\* ... for the trimmed text
SubmitText(text) ==
  IF text = TextNone
  THEN Page(state, dom, dragged, banner, sizeField,
            HandlerEvent("generate", sizeField, "alert", Overfilled))
  ELSE IF Len(state.groups) > 0 /\ state.lastCsvText = text
  THEN SubmitReshuffle(CurrentPayload(dom), sizeField, seedField)
  ELSE SubmitParsed(text, sizeField, seedField, ParseCSV(text))

\* els.setupForm 'submit'
Submit ==
  /\ steps < MaxSteps
  /\ SubmitText(TrimText(csvText))
  /\ UNCHANGED coreVars

\* applyNewGroupSize from its last try block on: groups is what the
\* repartitioner returned or threw.
ApplyReshuffled(newSize, prev, payload, groups) ==
  IF groups.threw
  THEN Page(WithSize(state, prev), dom, dragged, groups.error, prev,
            HandlerEvent("applyNewGroupSize", newSize, "banner", Overfilled))
  ELSE IF ~LockedStayInPlace(payload, groups.groups)
  THEN Page(state, dom, dragged, BannerMoved, sizeField,
            HandlerEvent("applyNewGroupSize", newSize, "banner", Overfilled))
  ELSE Page(WithGroups(state, newSize, groups.groups), Render(groups.groups),
            "", "", newSize,
            HandlerEvent("applyNewGroupSize", newSize, "accepted", Overfilled))

\* applyNewGroupSize from the tentative reshuffle on, made when the number of
\* groups would shrink.
ApplyTentative(newSize, prev, payloadBefore, shrinks, tentative, groups) ==
  IF shrinks /\ tentative.threw
  THEN Page(state, dom, dragged, tentative.error, sizeField,
            HandlerEvent("applyNewGroupSize", newSize, "banner", Overfilled))
  ELSE IF shrinks /\ ~LockedStayInPlace(payloadBefore, tentative.groups)
  THEN Page(state, dom, dragged, BannerSplit, sizeField,
            HandlerEvent("applyNewGroupSize", newSize, "banner", Overfilled))
  ELSE ApplyReshuffled(newSize, prev, payloadBefore, groups)

\* applyNewGroupSize for the payload read off the page
ApplyToPayload(newSize, prev, payloadBefore, seed) ==
  IF Violating(payloadBefore, newSize) # <<>>
  THEN Page(state, dom, dragged, BannerLockedOverSize, sizeField,
            HandlerEvent("applyNewGroupSize", newSize, "banner", Overfilled))
  ELSE \E first, second \in HandlerTapes(payloadBefore, newSize, seed) :
         ApplyTentative(newSize, prev, payloadBefore,
                        TargetBelow(Len(AllStudents(payloadBefore)), newSize,
                                    Len(payloadBefore)),
                        ReshuffleRespectingLocksToGroupSize(
                          payloadBefore, state.programs, newSize, seed, first),
                        ReshuffleRespectingLocksToGroupSize(
                          payloadBefore, state.programs, newSize, seed, second))

\* applyNewGroupSize(newSize)
ApplyNewGroupSize(newSize) ==
  IF newSize < 1
  THEN Page(state, dom, dragged, BannerMinSize, sizeField,
            HandlerEvent("applyNewGroupSize", newSize, "banner", Overfilled))
  ELSE IF Len(state.groups) = 0
  THEN Page(WithSize(state, newSize), dom, dragged, banner, newSize,
            HandlerEvent("applyNewGroupSize", newSize, "set", Overfilled))
  ELSE ApplyToPayload(newSize,
                      IF state.groupSize \notin {0, NaN} THEN state.groupSize
                      ELSE IF sizeField = NaN THEN DefaultSize ELSE sizeField,
                      CurrentPayload(dom), seedField)

\* parseInt(els.groupSize.value || String(state.groupSize || 0), 10) || 0
CurrentSize ==
  IF sizeField # NaN THEN sizeField
  ELSE IF state.groupSize = NaN THEN 0 ELSE state.groupSize

\* els.incSize 'click'
IncSize ==
  /\ steps < MaxSteps
  /\ CurrentSize < MaxGroupSize
  /\ ApplyNewGroupSize(CurrentSize + 1)
  /\ UNCHANGED coreVars

\* els.decSize 'click'
DecSize ==
  /\ steps < MaxSteps
  /\ ApplyNewGroupSize(CurrentSize - 1)
  /\ UNCHANGED coreVars

\* els.groupSize 'input': a number is typed into the size field, or the field
\* is emptied (if (!Number.isNaN(val)) state.groupSize = val)
GroupSizeInput ==
  /\ steps < MaxSteps
  /\ \E val \in SizeFields \ {sizeField} :
       Page(IF val = NaN THEN state ELSE WithSize(state, val), dom, dragged, banner, val,
            EditEvent)
  /\ UNCHANGED coreVars

\* another seed, or none, is typed into the seed field
SeedInput ==
  /\ steps < MaxSteps
  /\ \E sd \in SeedFields \ {seedField} : seedField' = sd
  /\ event' = EditEvent
  /\ steps' = steps + 1
  /\ UNCHANGED <<csvText, sizeField, state, dom, dragged, banner>>
  /\ UNCHANGED coreVars

\* another text is put into the textarea
CsvTextInput ==
  /\ steps < MaxSteps
  /\ \E text \in Texts \ {csvText} : csvText' = text
  /\ event' = EditEvent
  /\ steps' = steps + 1
  /\ UNCHANGED <<seedField, sizeField, state, dom, dragged, banner>>
  /\ UNCHANGED coreVars

\* The .student items on the page.
Items == UNION {Range(dom[i]) : i \in 1..Len(dom)}

\* 'dragstart' on an item: a locked item is not picked up
DragStart ==
  /\ steps < MaxSteps
  /\ \E item \in Items :
       Page(state, dom, IF item.locked THEN dragged ELSE item.name, banner, sizeField,
            EditEvent)
  /\ UNCHANGED coreVars

\* 'dragend' on an item: only the dragged item's own dragend clears `dragged`
DragEnd ==
  /\ steps < MaxSteps
  /\ \E item \in Items :
       Page(state, dom, IF dragged = item.name THEN "" ELSE dragged, banner, sizeField,
            EditEvent)
  /\ UNCHANGED coreVars

\* list.appendChild(dragged): the item leaves its list and ends the target list
MoveItem(sections, name, target) ==
  LET item == CHOOSE s \in UNION {Range(sections[i]) : i \in 1..Len(sections)} :
                s.name = name
  IN  ToSeq([i \in 1..Len(sections) |->
               SelectSeq(sections[i], LAMBDA s : s.name # name)
                 \o (IF i = target THEN <<item>> ELSE <<>>)])

\* A mutation of Drop that does not look at the lock of the dragged item.
DropLocked ==
  /\ steps < MaxSteps
  /\ \E list \in 1..Len(dom) :
       IF dragged # ""
       THEN Page(state, MoveItem(dom, dragged, list), dragged, banner, sizeField, EditEvent)
       ELSE Page(state, dom, dragged, banner, sizeField, EditEvent)
  /\ UNCHANGED coreVars

\* 'drop' on a student list
Drop ==
  /\ steps < MaxSteps
  /\ \E list \in 1..Len(dom) :
       IF dragged # "" /\ \E item \in Items : item.name = dragged /\ ~item.locked
       THEN Page(state, MoveItem(dom, dragged, list), dragged, banner, sizeField, EditEvent)
       ELSE Page(state, dom, dragged, banner, sizeField, EditEvent)
  /\ UNCHANGED coreVars

\* li.dataset.locked = (!locked).toString()
ToggleLock(sections, name) ==
  ToSeq([i \in 1..Len(sections) |->
           ToSeq([k \in 1..Len(sections[i]) |->
                    IF sections[i][k].name = name
                    THEN [name |-> name, program |-> sections[i][k].program,
                          locked |-> ~sections[i][k].locked]
                    ELSE sections[i][k]])])

\* 'click' on the lock button of an item
LockClick ==
  /\ steps < MaxSteps
  /\ \E item \in Items :
       Page(state, ToggleLock(dom, item.name), dragged, banner, sizeField, EditEvent)
  /\ UNCHANGED coreVars

\* els.theme 'change': the groups held in state are rendered again
ThemeChange ==
  /\ steps < MaxSteps
  /\ IF Len(state.groups) > 0
     THEN Page(state, Render(state.groups), "", banner, sizeField, EditEvent)
     ELSE Page(state, dom, dragged, banner, sizeField, EditEvent)
  /\ UNCHANGED coreVars

\* the timer of showGroupBanner removes the banner
BannerFades ==
  /\ banner # ""
  /\ banner' = ""
  /\ UNCHANGED <<csvText, sizeField, seedField, state, dom, dragged, event, steps>>
  /\ UNCHANGED coreVars

\* The page after the script has run: no groups, the size field at its
\* default, which state.groupSize is read from.
CoreIdle ==
  /\ input = [fn |-> "none", students |-> <<>>, groups |-> <<>>, programs |-> <<>>,
              groupSize |-> 0, seed |-> NoSeed]
  /\ out = NotCalled
  /\ again = NotCalled
  /\ calls = 0

Init ==
  /\ CoreIdle
  /\ csvText \in Texts
  /\ sizeField \in 1..MaxGroupSize
  /\ seedField \in SeedFields
  /\ state = [programs |-> <<>>, groupSize |-> sizeField, groups |-> <<>>,
              lastCsvText |-> TextNone]
  /\ dom = <<>>
  /\ dragged = ""
  /\ banner = ""
  /\ event = NoEvent
  /\ steps = 0

Next ==
  \/ Submit
  \/ IncSize
  \/ DecSize
  \/ GroupSizeInput
  \/ SeedInput
  \/ CsvTextInput
  \/ DragStart
  \/ DragEnd
  \/ Drop
  \/ LockClick
  \/ ThemeChange
  \/ BannerFades

\* The page under its handlers.
Spec == Init /\ [][Next]_vars

\* ------------------------------------------------- docs/app.js: the page

\* header.indexOf(cell): the first index, 0 for -1
FirstIndex(header, cell) ==
  LET hits == {i \in 1..Len(header) : header[i] = cell}
  IN  IF hits = {} THEN 0 ELSE CHOOSE i \in hits : \A j \in hits : i <= j

\* docs parseCSV from the header on
DocsParseRows(rows, nameIdx, progIdx) ==
  IF nameIdx = 0 \/ progIdx = 0
  THEN ParseThrew("Error: Missing 'name' or 'program' header")
  ELSE IF Len(ParseRows(rows, nameIdx, progIdx)) = 0
  THEN ParseThrew("Error: No students found in CSV")
  ELSE [threw |-> FALSE, error |-> "", students |-> ParseRows(rows, nameIdx, progIdx)]

\* ... for the lines that are not blank
DocsParseLines(lines) ==
  IF Len(lines) = 0 THEN ParseThrew("Error: CSV is empty")
  ELSE DocsParseRows(Tail(lines),
                     FirstIndex(ToSeq([i \in 1..Len(lines[1]) |-> LowerCase(lines[1][i])]),
                                "name"),
                     FirstIndex(ToSeq([i \in 1..Len(lines[1]) |-> LowerCase(lines[1][i])]),
                                "program"))

\* docs parseCSV(text): the header must name the columns name and program
DocsParseCSV(text) == DocsParseLines(SelectSeq(text, LAMBDA l : l # <<>>))

\* docs submit handler, from the return of groupStudents on
DocsSubmitBuilt(desired, result) ==
  IF result.threw
  THEN Page(state, dom, dragged, banner, sizeField,
            HandlerEvent("docs-generate", desired, "alert", Overfilled))
  ELSE Page([programs |-> result.programs, groupSize |-> result.groupSize,
             groups |-> result.groups, lastCsvText |-> state.lastCsvText],
            Render(result.groups), "", banner, sizeField,
            HandlerEvent("docs-generate", desired, "built", Overfilled))

\* ... from the return of parseCSV on
DocsSubmitParsed(desired, seed, parsed) ==
  IF parsed.threw
  THEN Page(state, dom, dragged, banner, sizeField,
            HandlerEvent("docs-generate", desired, "alert", Overfilled))
  ELSE \E tape \in (IF seed.given THEN {<<>>}
                    ELSE TapesFor(DocsGroupStudentsRun(parsed.students, desired,
                                                       NoSeed, <<>>).asked)) :
         DocsSubmitBuilt(desired,
                         Returned(DocsGroupStudentsRun(parsed.students, desired,
                                                       seed, tape)))

\* docs els.setupForm 'submit': csvText is the text of the file chosen,
\* TextNone when no file is chosen
DocsSubmit ==
  /\ steps < MaxSteps
  /\ IF csvText = TextNone
     THEN Page(state, dom, dragged, banner, sizeField,
               HandlerEvent("docs-generate", sizeField, "alert", Overfilled))
     ELSE DocsSubmitParsed(sizeField, seedField, DocsParseCSV(csvText))
  /\ UNCHANGED coreVars

\* The Math.random() tapes for a docs reshuffle of the payload.
DocsHandlerTapes(groups, size, seed) ==
  IF seed.given THEN {<<>>}
  ELSE TapesFor(DocsReshuffleRun(groups, state.programs, size, NoSeed, <<>>).asked)

\* docs els.reshuffle 'click', from the return of reshuffleRespectingLocks on
DocsReshuffled(groups) ==
  IF groups.threw
  THEN Page(state, dom, dragged, banner, sizeField,
            HandlerEvent("docs-reshuffle", state.groupSize, "alert", Overfilled))
  ELSE Page(WithGroups(state, state.groupSize, groups.groups), Render(groups.groups),
            "", banner, sizeField,
            HandlerEvent("docs-reshuffle", state.groupSize, "accepted", Overfilled))

\* docs els.reshuffle 'click'
DocsReshuffleClick ==
  /\ steps < MaxSteps
  /\ \E tape \in DocsHandlerTapes(CurrentPayload(dom), state.groupSize, seedField) :
       DocsReshuffled(Reshuffled(DocsReshuffleRun(CurrentPayload(dom), state.programs,
                                                  state.groupSize, seedField, tape)))
  /\ UNCHANGED coreVars

\* docs applyNewGroupSize from the return of reshuffleRespectingLocks on
DocsApplyReshuffled(newSize, prev, groups) ==
  IF groups.threw
  THEN Page(WithSize(state, prev), dom, dragged, banner, prev,
            HandlerEvent("docs-applyNewGroupSize", newSize, "alert", Overfilled))
  ELSE Page(WithGroups(state, newSize, groups.groups), Render(groups.groups),
            "", banner, newSize,
            HandlerEvent("docs-applyNewGroupSize", newSize, "accepted", Overfilled))

\* docs applyNewGroupSize for the payload read off the page
DocsApplyToPayload(newSize, prev, payload, seed) ==
  \E tape \in DocsHandlerTapes(payload, newSize, seed) :
    DocsApplyReshuffled(newSize, prev,
                        Reshuffled(DocsReshuffleRun(payload, state.programs, newSize,
                                                    seed, tape)))

\* docs applyNewGroupSize(newSize): minSize = Math.max(1, state.programs.length)
DocsApplyNewGroupSize(newSize) ==
  IF newSize < Max(1, Len(state.programs))
  THEN Page(state, dom, dragged, banner, sizeField,
            HandlerEvent("docs-applyNewGroupSize", newSize, "alert", Overfilled))
  ELSE IF Len(state.groups) = 0
  THEN Page(WithSize(state, newSize), dom, dragged, banner, newSize,
            HandlerEvent("docs-applyNewGroupSize", newSize, "set", Overfilled))
  ELSE DocsApplyToPayload(newSize,
                          IF state.groupSize \notin {0, NaN} THEN state.groupSize
                          ELSE IF sizeField = NaN THEN DefaultSize ELSE sizeField,
                          CurrentPayload(dom), seedField)

\* docs els.incSize 'click'
DocsIncSize ==
  /\ steps < MaxSteps
  /\ CurrentSize < MaxGroupSize
  /\ DocsApplyNewGroupSize(CurrentSize + 1)
  /\ UNCHANGED coreVars

\* docs els.decSize 'click'
DocsDecSize ==
  /\ steps < MaxSteps
  /\ DocsApplyNewGroupSize(CurrentSize - 1)
  /\ UNCHANGED coreVars

\* The docs page has the size, seed, drag, drop, lock and theme handlers of the
\* page above, without a dragend handler and without banners.
DocsNext ==
  \/ DocsSubmit
  \/ DocsReshuffleClick
  \/ DocsIncSize
  \/ DocsDecSize
  \/ GroupSizeInput
  \/ SeedInput
  \/ CsvTextInput
  \/ DragStart
  \/ Drop
  \/ LockClick
  \/ ThemeChange

\* The docs page under its handlers.
SpecDocs == Init /\ [][DocsNext]_vars

\* --------------------------------------------------- claims: the core calls

\* The call under test was groupStudents on a non-empty roster with a positive size.
BuiltValid ==
  /\ calls >= 1
  /\ input.fn = "groupStudents"
  /\ Len(input.students) > 0
  /\ input.groupSize > 0

\* How often the student (name, program) occurs in the groups.
Occurrences(groups, name, program) ==
  Cardinality(UNION {{<<i, k>> : k \in {k \in 1..Len(groups[i].students) :
                                          /\ groups[i].students[k].name = name
                                          /\ groups[i].students[k].program = program}} :
                     i \in 1..Len(groups)})

GroupSizesSum(groups) == SumLens(ToSeq([i \in 1..Len(groups) |-> groups[i].students]))

\* C1: groupStudents on a non-empty roster with a positive size returns groups
\* that hold every input student exactly once; the group sizes add up to the
\* number of input students.
C1_BuildKeepsEveryStudent ==
  BuiltValid =>
    /\ ~out.threw
    /\ GroupSizesSum(out.groups) = Len(input.students)
    /\ \A k \in 1..Len(input.students) :
         Occurrences(out.groups, input.students[k].name, input.students[k].program) = 1

C1_Witness ==
  /\ BuiltValid
  /\ Len(input.students) >= 3
  /\ Len(out.groups) = 2
  /\ \E i \in 1..Len(out.groups) : Len(out.groups[i].students) >= 2

\* C2: no group returned by groupStudents has more than groupSize students.
C2_BuildRespectsCapacity ==
  BuiltValid =>
    \A i \in 1..Len(out.groups) : Len(out.groups[i].students) <= input.groupSize

C2_Witness ==
  /\ BuiltValid
  /\ Len(out.groups) >= 2
  /\ \A i \in 1..Len(out.groups) : Len(out.groups[i].students) = input.groupSize

\* The distinct programs of a roster, and how many students each has.
ProgramSet(students) == {students[k].program : k \in 1..Len(students)}

\* C3: when the roster has at most groupSize programs and every program has at
\* least numGroups = ceil(total / groupSize) students, every group holds a
\* student of every program and its missingPrograms is null.
C3_Feasible ==
  /\ BuiltValid
  /\ Cardinality(ProgramSet(input.students)) <= input.groupSize
  /\ \A p \in ProgramSet(input.students) :
       CountOf(input.students, p) >= CeilDiv(Len(input.students), input.groupSize)

C3_FullCoverageWhenFeasible ==
  C3_Feasible =>
    \A i \in 1..Len(out.groups) :
      /\ out.groups[i].missingPrograms.isNull
      /\ \A p \in ProgramSet(input.students) :
           \E k \in 1..Len(out.groups[i].students) : out.groups[i].students[k].program = p

\* the roster of six with size 3 and seed 1: two groups, three programs each
C3_Witness ==
  /\ C3_Feasible
  /\ input.students = ScenarioRoster
  /\ input.groupSize = 3
  /\ input.seed = SeedOf(1)
  /\ Len(out.groups) = 2
  /\ \A i \in 1..2 : out.groups[i].missingPrograms.isNull

\* <<n, n-1, ..., 2>>: the ranges one shuffle of n elements draws for.
RECURSIVE ShuffleRanges(_)
ShuffleRanges(n) == IF n < 2 THEN <<>> ELSE <<n>> \o ShuffleRanges(n - 1)

\* The ranges of the per-program shuffles, in sorted program order.
BucketRanges(students) ==
  Flatten(ToSeq([k \in 1..Len(ProgramOrder) |->
                   ShuffleRanges(CountOf(students, ProgramOrder[k]))]))

\* C4: two calls of groupStudents with the same roster, size and numeric seed
\* return the same groups with the same students in the same order; the seeded
\* generator is drawn from for the per-program shuffles in sorted program
\* order and then for one shuffle of the leftover students.
C4_SeededBuildIsDeterministic ==
  (calls = 2 /\ input.fn = "groupStudents" /\ input.seed.given) =>
    /\ again = out
    /\ LET asked == GroupStudentsRun(input.students, input.groupSize,
                                     input.seed, <<>>).asked
           head  == BucketRanges(input.students)
       IN  ~out.threw =>
             /\ Len(asked) >= Len(head)
             /\ SubSeq(asked, 1, Len(head)) = head
             /\ \E m \in 0..Len(input.students) :
                  SubSeq(asked, Len(head) + 1, Len(asked)) = ShuffleRanges(m)

C4_Witness ==
  /\ calls = 2
  /\ input.seed.given
  /\ ~out.threw
  /\ again = out
  /\ Len(out.groups) >= 2
  /\ Len(GroupStudentsRun(input.students, input.groupSize, input.seed, <<>>).asked) >= 3

\* The call under test was the repartitioner, and it returned.
Repartitioned ==
  /\ calls >= 1
  /\ input.fn = "reshuffleRespectingLocksToGroupSize"
  /\ ~out.threw

\* C5: whenever the repartitioner returns, lockedStayInPlace(prior, result)
\* is true: every cohort lies in exactly one result group and no result group
\* holds pinned students of two cohorts (the students have distinct names).
C5_RepartitionPreservesCohorts ==
  Repartitioned => LockedStayInPlace(input.groups, out.groups)

\* the group count grows from 2 to 3 around a cohort of two
C5_Witness ==
  /\ Repartitioned
  /\ Len(input.groups) = 2
  /\ Len(out.groups) = 3
  /\ \E i \in 1..Len(input.groups) : Len(LockedOf(input.groups[i].students)) >= 2
  /\ LockedStayInPlace(input.groups, out.groups)

\* C7: whenever the repartitioner returns for a positive size, every student
\* of the input groups, pinned or not, is in the output groups exactly once.
C7_RepartitionKeepsEveryStudent ==
  (Repartitioned /\ input.groupSize > 0) =>
    /\ GroupSizesSum(out.groups) = GroupSizesSum(input.groups)
    /\ \A s \in Range(AllStudents(input.groups)) :
         Occurrences(out.groups, s.name, s.program) = 1

\* leftover students were placed after a pinned cohort overfilled its group
C7_Witness ==
  /\ Repartitioned
  /\ input.groupSize > 0
  /\ GroupSizesSum(input.groups) >= 4
  /\ \E i \in 1..Len(out.groups) : Len(out.groups[i].students) > input.groupSize
  /\ \E i \in 1..Len(out.groups) :
       Len(SelectSeq(out.groups[i].students, LAMBDA s : ~s.locked)) >= 1

IsSorted(programs) ==
  \A i, j \in 1..Len(programs) : i < j => Rank(programs[i]) < Rank(programs[j])

\* The programs list the groups of the call were annotated with.
CallPrograms == IF input.fn = "groupStudents" THEN out.programs ELSE input.programs

\* C10: in every group returned by groupStudents and by the repartitioner,
\* missingPrograms lists, in the order of the programs list (sorted, for
\* groupStudents), exactly the programs with no student in the group, and it
\* is null exactly when the group holds every program.
C10_MissingProgramsAreExact ==
  (calls >= 1 /\ ~out.threw) =>
    /\ input.fn = "groupStudents" =>
         IsSorted(out.programs) /\ Range(out.programs) = ProgramSet(input.students)
    /\ \A i \in 1..Len(out.groups) :
         LET g == out.groups[i]
             absent == {p \in Range(CallPrograms) : p \notin ProgramSet(g.students)}
         IN  /\ g.missingPrograms.isNull <=> absent = {}
             /\ Range(g.missingPrograms.list) = absent
             /\ Len(g.missingPrograms.list) = Cardinality(absent)
             /\ \A a, b \in 1..Len(g.missingPrograms.list) :
                  a < b => \E x, y \in 1..Len(CallPrograms) :
                             /\ x < y
                             /\ CallPrograms[x] = g.missingPrograms.list[a]
                             /\ CallPrograms[y] = g.missingPrograms.list[b]

\* a repartition with one group that misses two programs and one that misses none
C10_Witness ==
  /\ Repartitioned
  /\ \E i \in 1..Len(out.groups) : out.groups[i].missingPrograms.isNull
  /\ \E i \in 1..Len(out.groups) : Len(out.groups[i].missingPrograms.list) >= 1

\* ----------------------------------------------------- claims: the page

\* The most locked students in one rendered group.
MaxLocked(sections) ==
  IF sections = <<>> THEN 0
  ELSE LET counts == {Len(LockedOf(sections[i])) : i \in 1..Len(sections)}
       IN  CHOOSE n \in counts : \A m \in counts : m <= n

\* The handlers that repartition the groups on the page.
RepartitionOps == {"applyNewGroupSize", "generate-reshuffle"}

\* C6: when a rendered group holds more locked students than the size asked
\* for (a number), applyNewGroupSize and the Generate handler's reshuffle end with the
\* error banner (too many locked students for the size, or a size below 1) and
\* leave state and the rendered groups as they were: no new partition, no
\* cohort split.
C6_OversizedCohortIsRejected ==
  [][(/\ steps' = steps + 1
      /\ event'.op \in RepartitionOps
      /\ event'.size # NaN
      /\ MaxLocked(dom) > event'.size)
       => /\ event'.outcome = "banner"
          /\ banner' \in {BannerLockedOverSize, BannerMinSize}
          /\ event'.size >= 1 => banner' = BannerLockedOverSize
          /\ state' = state
          /\ dom' = dom]_vars

\* a cohort of two was refused size 1 by applyNewGroupSize
C6_Witness ==
  /\ event.op = "applyNewGroupSize"
  /\ event.size = 1
  /\ event.outcome = "banner"
  /\ banner = BannerLockedOverSize
  /\ MaxLocked(dom) >= 2
  /\ state.groupSize >= 2

\* C8: after applyNewGroupSize or the Generate handler has assigned
\* state.groups, every group in state.groups has at most state.groupSize
\* students, also when a rendered group was larger than that before.
C8_AcceptedGroupsFitTheSize ==
  event.outcome \in {"accepted", "built"} =>
    /\ \A i \in 1..Len(state.groups) : Len(state.groups[i].students) <= state.groupSize
    /\ state.groupSize = event.size
    /\ dom = Render(state.groups)

\* a repartition was accepted on a page where a drop had overfilled a group
C8_Witness ==
  /\ event.outcome = "accepted"
  /\ event.overfilled
  /\ Len(state.groups) >= 2
  /\ \A i \in 1..Len(state.groups) : Len(state.groups[i].students) <= state.groupSize

\* ------------------------------------------- claims: counts and cohorts

\* n groups of at most groupSize are what total students need:
\* (n - 1) * groupSize < total <= n * groupSize.
NeededGroups(n, total, groupSize) ==
  (n - 1) * groupSize < total /\ total <= n * groupSize

\* C11: for a positive size groupStudents returns ceil(total / groupSize)
\* groups (and reports that number as numGroups), the repartitioner returns
\* max(1, ceil(total / groupSize)) groups, and in both results the index
\* fields are 1, 2, ..., n in output order.
C11_GroupCountFollowsCapacity ==
  (calls >= 1 /\ ~out.threw /\ input.groupSize > 0) =>
    /\ input.fn = "groupStudents" =>
         /\ NeededGroups(Len(out.groups), Len(input.students), input.groupSize)
         /\ out.numGroups = Len(out.groups)
    /\ input.fn = "reshuffleRespectingLocksToGroupSize" =>
         IF GroupSizesSum(input.groups) = 0 THEN Len(out.groups) = 1
         ELSE NeededGroups(Len(out.groups), GroupSizesSum(input.groups), input.groupSize)
    /\ \A i \in 1..Len(out.groups) : out.groups[i].index = i

\* one group of three is repartitioned to size 2: two groups, indexed 1 and 2
C11_Witness ==
  /\ Repartitioned
  /\ input.groupSize = 2
  /\ Len(input.groups) = 1
  /\ GroupSizesSum(input.groups) = 3
  /\ Len(out.groups) = 2
  /\ out.groups[2].index = 2

\* The identities pinned in a group.
PinnedIn(group) == {Key(group.students[k]) : k \in {k \in 1..Len(group.students) :
                                                     group.students[k].locked}}

\* The cohorts of the groups: the non-empty sets of pinned identities.
CohortSets(groups) == {PinnedIn(groups[i]) : i \in 1..Len(groups)} \ {{}}

\* C12: for students with distinct identities lockedStayInPlace(prev, next)
\* is true exactly when every cohort of prev lies, all members pinned, inside
\* exactly one group of next and no group of next holds pinned members of two
\* cohorts; so it is true when prev pins nobody, and false when a cohort is
\* split, merged with another, or not all pinned in next.
C12_CohortCheckIsExact ==
  (calls = 1 /\ input.fn = "lockedStayInPlace") =>
    (out.value <=>
       /\ \A c \in CohortSets(input.groups) :
            Cardinality({j \in 1..Len(input.nextGroups) :
                           c \subseteq PinnedIn(input.nextGroups[j])}) = 1
       /\ \A j \in 1..Len(input.nextGroups) :
            Cardinality({c \in CohortSets(input.groups) :
                           c \cap PinnedIn(input.nextGroups[j]) # {}}) <= 1)

\* two cohorts that swapped groups, the third student newly pinned beside one
C12_Witness ==
  /\ calls = 1
  /\ input.fn = "lockedStayInPlace"
  /\ out.value
  /\ Cardinality(CohortSets(input.groups)) = 2
  /\ PinnedIn(input.nextGroups[1]) # PinnedIn(input.groups[1])
  /\ \E j \in 1..Len(input.nextGroups) : Cardinality(PinnedIn(input.nextGroups[j])) = 2

\* C13: whenever applyNewGroupSize or the Generate handler's reshuffle path
\* rejects the size asked for (a banner or an alert is shown), state.groups and
\* state.groupSize are afterwards what they were before the request.
C13_RejectionLeavesStateAlone ==
  [][(/\ steps' = steps + 1
      /\ event'.op \in RepartitionOps
      /\ event'.outcome \in {"banner", "alert"})
       => /\ state'.groups = state.groups
          /\ state'.groupSize = state.groupSize]_vars

\* max(1, ceil(total / groupSize)) for a positive size: the least n >= 1 with
\* n * groupSize >= total.
TargetCount(total, groupSize) ==
  CHOOSE n \in 1..(total + 1) :
    n * groupSize >= total /\ (n = 1 \/ (n - 1) * groupSize < total)

\* The input groups that hold a pinned student.
PinnedGroups(groups) == {i \in 1..Len(groups) : HasLocks(groups[i].students)}

DocsBuilt == calls >= 1 /\ input.fn = "docs groupStudents"

\* The configurations docs groupStudents refuses: a size that is not positive,
\* an empty roster, more programs than seats in a group, or a program with
\* fewer students than there are groups.
DocsRefused ==
  \/ input.groupSize <= 0
  \/ Len(input.students) = 0
  \/ Cardinality(ProgramSet(input.students)) > input.groupSize
  \/ \E p \in ProgramSet(input.students) :
       CountOf(input.students, p) < CeilDiv(Len(input.students), input.groupSize)

\* C15: docs groupStudents either throws, and it does so exactly on a size that
\* is not positive, an empty roster, more programs than groupSize or a program
\* with fewer students than numGroups, or returns groups in which every group
\* holds a student of every program, no group exceeds groupSize and every
\* input student occurs exactly once.
C15_StrictBuildCoversOrThrows ==
  DocsBuilt =>
    /\ out.threw <=> DocsRefused
    /\ out.threw => out.groups = <<>>
    /\ ~out.threw =>
         /\ \A i \in 1..Len(out.groups) :
              /\ Len(out.groups[i].students) <= input.groupSize
              /\ \A p \in ProgramSet(input.students) :
                   \E k \in 1..Len(out.groups[i].students) :
                     out.groups[i].students[k].program = p
         /\ GroupSizesSum(out.groups) = Len(input.students)
         /\ \A k \in 1..Len(input.students) :
              Occurrences(out.groups, input.students[k].name,
                          input.students[k].program) = 1

\* four students of one program in two groups of two: one each, then the two
\* spare students placed one after the other
C15_Witness ==
  /\ DocsBuilt
  /\ ~out.threw
  /\ input.groupSize = 2
  /\ Len(input.students) = 4
  /\ Cardinality(ProgramSet(input.students)) = 1
  /\ Len(out.groups) = 2
  /\ \A i \in 1..2 : Len(out.groups[i].students) = 2

\* C16: whenever docs reshuffleRespectingLocks returns, every student that was
\* locked in input group i is still locked and is in the output group whose
\* index is i.
C16_LockedKeepTheirGroupNumber ==
  (calls >= 1 /\ input.fn = "docs reshuffleRespectingLocks" /\ ~out.threw) =>
    \A i \in 1..Len(input.groups) :
      \A k \in 1..Len(input.groups[i].students) :
        input.groups[i].students[k].locked =>
          \E j \in 1..Len(out.groups) :
            /\ out.groups[j].index = input.groups[i].index
            /\ \E m \in 1..Len(out.groups[j].students) :
                 /\ out.groups[j].students[m].name = input.groups[i].students[k].name
                 /\ out.groups[j].students[m].program = input.groups[i].students[k].program
                 /\ out.groups[j].students[m].locked

\* C17: on the docs page every accepted change of the group size by
\* applyNewGroupSize leaves as many students in state.groups as there were
\* before it; no student disappears when the size is decreased.
C17_SizeChangeKeepsEveryStudent ==
  [][(/\ steps' = steps + 1
      /\ event'.op = "docs-applyNewGroupSize"
      /\ event'.outcome = "accepted")
       => GroupSizesSum(state'.groups) = GroupSizesSum(state.groups)]_vars

\* ------------------------------------------ claims: where students are placed

\* The result group with the index of input group i holds the cohort of group i.
CohortAtOwnIndex(i) ==
  \E j \in 1..Len(out.groups) :
    /\ out.groups[j].index = input.groups[i].index
    /\ PinnedIn(input.groups[i]) \subseteq PinnedIn(out.groups[j])

CohortRank(groups, i) == Cardinality({j \in PinnedGroups(groups) : j <= i})

GroupOf(groups, s) ==
  CHOOSE i \in 1..Len(groups) :
    \E m \in 1..Len(groups[i].students) : groups[i].students[m].name = s.name

\* The students of the shuffled pool that were placed, by position in the pool.
PlacedOf(groups, pool) ==
  {k \in 1..Len(pool) :
     \E i \in 1..Len(groups) :
       \E m \in 1..Len(groups[i].students) : groups[i].students[m].name = pool[k].name}

\* The size of returned group i just before pool student k was placed: its
\* final size less the pool students from k on that it holds.
SizeBefore(groups, pool, k, i) ==
  Len(groups[i].students)
    - Cardinality({m \in PlacedOf(groups, pool) : m >= k /\ GroupOf(groups, pool[m]) = i})

\* A seeded repartition that returned, and its run.
SeededRepartition ==
  Repartitioned /\ input.seed.given /\ input.groupSize > 0

RepartitionRun ==
  ReshuffleRun(input.groups, input.programs, input.groupSize, input.seed, <<>>)

\* C19 as claimed: every leftover student of a repartition is appended to a
\* group whose size at that moment is the smallest of all target groups, the
\* one with the lowest index on ties, and that has fewer than groupSize
\* students.
C19_LeftoverGoesToSmallestGroup ==
  SeededRepartition =>
    /\ Reshuffled(RepartitionRun) = out
    /\ \A k \in PlacedOf(out.groups, RepartitionRun.leftover) :
         /\ SizeBefore(out.groups, RepartitionRun.leftover, k,
                       GroupOf(out.groups, RepartitionRun.leftover[k])) < input.groupSize
         /\ \A i \in 1..Len(out.groups) :
              \/ SizeBefore(out.groups, RepartitionRun.leftover, k, i)
                   > SizeBefore(out.groups, RepartitionRun.leftover, k,
                                GroupOf(out.groups, RepartitionRun.leftover[k]))
              \/ /\ SizeBefore(out.groups, RepartitionRun.leftover, k, i)
                      = SizeBefore(out.groups, RepartitionRun.leftover, k,
                                   GroupOf(out.groups, RepartitionRun.leftover[k]))
                 /\ GroupOf(out.groups, RepartitionRun.leftover[k]) <= i

\* Group c stands before group i in targetOrder: groups without pinned
\* students first, then by size before the leftover loop, then by index.
StandsBefore(groups, pool, c, i) ==
  \/ PinnedIn(groups[c]) = {} /\ PinnedIn(groups[i]) # {}
  \/ /\ (PinnedIn(groups[c]) = {}) = (PinnedIn(groups[i]) = {})
     /\ \/ SizeBefore(groups, pool, 1, c) < SizeBefore(groups, pool, 1, i)
        \/ /\ SizeBefore(groups, pool, 1, c) = SizeBefore(groups, pool, 1, i)
           /\ c <= i

\* C19, amended: every leftover student of a repartition is appended to a
\* group with fewer than groupSize students, namely the first such group in
\* an order fixed once before the loop: the groups without pinned students
\* first, then by their size before the loop, then by index.  The group chosen
\* need not be the smallest at that moment.
C19_LeftoverGoesToFirstGroupWithRoom ==
  SeededRepartition =>
    /\ Reshuffled(RepartitionRun) = out
    /\ \A k \in PlacedOf(out.groups, RepartitionRun.leftover) :
         /\ SizeBefore(out.groups, RepartitionRun.leftover, k,
                       GroupOf(out.groups, RepartitionRun.leftover[k])) < input.groupSize
         /\ \A i \in 1..Len(out.groups) :
              SizeBefore(out.groups, RepartitionRun.leftover, k, i) < input.groupSize
                => StandsBefore(out.groups, RepartitionRun.leftover,
                                GroupOf(out.groups, RepartitionRun.leftover[k]), i)

\* a leftover student was appended to a group without pinned students while
\* the group of the cohort was smaller
C19_Witness ==
  /\ SeededRepartition
  /\ \E k \in PlacedOf(out.groups, RepartitionRun.leftover) :
       \E i \in 1..Len(out.groups) :
         /\ PinnedIn(out.groups[i]) # {}
         /\ SizeBefore(out.groups, RepartitionRun.leftover, k, i)
              < SizeBefore(out.groups, RepartitionRun.leftover, k,
                           GroupOf(out.groups, RepartitionRun.leftover[k]))

\* A seeded call of groupStudents that returned, and its run.
SeededBuild ==
  BuiltValid /\ input.seed.given /\ ~out.threw

BuildRun == GroupStudentsRun(input.students, input.groupSize, input.seed, <<>>)

\* C20 as claimed: every leftover student of groupStudents is appended to a
\* group of minimal size at that moment, and among the groups of that size to
\* the one with the lowest index in the returned groups.
C20_RestGoesToLowestIndexOnTies ==
  SeededBuild =>
    /\ Returned(BuildRun) = out
    /\ \A k \in PlacedOf(out.groups, BuildRun.rest) :
         \A i \in 1..Len(out.groups) :
           \/ SizeBefore(out.groups, BuildRun.rest, k, i)
                > SizeBefore(out.groups, BuildRun.rest, k, GroupOf(out.groups, BuildRun.rest[k]))
           \/ /\ SizeBefore(out.groups, BuildRun.rest, k, i)
                   = SizeBefore(out.groups, BuildRun.rest, k,
                                GroupOf(out.groups, BuildRun.rest[k]))
              /\ GroupOf(out.groups, BuildRun.rest[k]) <= i

\* C20, amended: every leftover student of groupStudents is placed, into a
\* group of minimal size at that moment that has fewer than groupSize
\* students.  Among the groups of that size the one standing first in the
\* array after the sort is chosen, which need not have the lowest index in the
\* returned groups.
C20_RestGoesToASmallestGroup ==
  SeededBuild =>
    /\ Returned(BuildRun) = out
    /\ PlacedOf(out.groups, BuildRun.rest) = 1..Len(BuildRun.rest)
    /\ \A k \in 1..Len(BuildRun.rest) :
         /\ SizeBefore(out.groups, BuildRun.rest, k, GroupOf(out.groups, BuildRun.rest[k]))
              < input.groupSize
         /\ \A i \in 1..Len(out.groups) :
              SizeBefore(out.groups, BuildRun.rest, k, i)
                >= SizeBefore(out.groups, BuildRun.rest, k,
                              GroupOf(out.groups, BuildRun.rest[k]))

\* a tie that went to the group returned with the higher index
C20_Witness ==
  /\ SeededBuild
  /\ \E k \in PlacedOf(out.groups, BuildRun.rest) :
       \E i \in 1..Len(out.groups) :
         /\ i < GroupOf(out.groups, BuildRun.rest[k])
         /\ SizeBefore(out.groups, BuildRun.rest, k, i)
              = SizeBefore(out.groups, BuildRun.rest, k, GroupOf(out.groups, BuildRun.rest[k]))

\* --------------------------------------------- claims: programs in the groups

\* The returned groups that hold a student of program p.
GroupsWith(groups, p) ==
  {i \in 1..Len(groups) :
     \E k \in 1..Len(groups[i].students) : groups[i].students[k].program = p}

\* The returned groups that list program p in missingPrograms.
GroupsMissing(groups, p) ==
  {i \in 1..Len(groups) :
     /\ ~groups[i].missingPrograms.isNull
     /\ \E k \in 1..Len(groups[i].missingPrograms.list) :
          groups[i].missingPrograms.list[k] = p}

\* C21: the k students of a program with fewer students than there are groups
\* land in k different groups: exactly k groups hold the program and exactly
\* numGroups - k groups list it in missingPrograms, for every number of short
\* programs.
C21_ShortProgramSpreadsOverGroups ==
  (BuiltValid /\ ~out.threw) =>
    \A p \in ProgramSet(input.students) :
      CountOf(input.students, p) < Len(out.groups) =>
        /\ Cardinality(GroupsWith(out.groups, p)) = CountOf(input.students, p)
        /\ Cardinality(GroupsMissing(out.groups, p))
             = Len(out.groups) - CountOf(input.students, p)

\* The programs with at least as many students as there are target groups.
Sufficient(p) == CountOf(AllStudents(input.groups), p) >= Len(out.groups)

\* The sufficient programs among the programs handed to the repartitioner.
SufficientPrograms ==
  {input.programs[k] : k \in {k \in 1..Len(input.programs) : Sufficient(input.programs[k])}}

\* The pinned students placed in target group j.
PinnedPlaced(j) == LockedOf(out.groups[j].students)

\* Every target group has room for its pinned students and one student of
\* every sufficient program they lack, and every sufficient program has an
\* unpinned student for every target group without a pinned one.
C22_GapsCanBeFilled ==
  /\ Repartitioned
  /\ input.groupSize > 0
  /\ \A j \in 1..Len(out.groups) :
       Len(PinnedPlaced(j))
         + Cardinality({p \in SufficientPrograms : ~HasProgram(PinnedPlaced(j), p)})
         <= input.groupSize
  /\ \A p \in SufficientPrograms :
       CountOf(SelectSeq(AllStudents(input.groups), LAMBDA s : ~s.locked), p)
         >= Cardinality({j \in 1..Len(out.groups) : ~HasProgram(PinnedPlaced(j), p)})

\* C22: when every target group has room for its pinned students plus the
\* sufficient programs they lack, and every sufficient program has enough
\* unpinned students for the groups without a pinned one, no group of the
\* result lists a sufficient program in missingPrograms.
C22_SufficientProgramsAreFilledIn ==
  C22_GapsCanBeFilled =>
    \A p \in SufficientPrograms : GroupsMissing(out.groups, p) = {}

\* two target groups and two sufficient programs; a group with a pinned
\* student was given the program that student lacks
C22_Witness ==
  /\ C22_GapsCanBeFilled
  /\ Len(out.groups) = 2
  /\ Cardinality(SufficientPrograms) = 2
  /\ \E j \in 1..2 : \E p \in SufficientPrograms :
       /\ Len(PinnedPlaced(j)) >= 1
       /\ ~HasProgram(PinnedPlaced(j), p)
       /\ HasProgram(out.groups[j].students, p)

\* ------------------------------------------------- claims: shuffleInPlace

Shuffled == input.fn = "shuffleInPlace" /\ calls = 1

\* how often x stands in arr
TimesIn(arr, x) == Cardinality({k \in 1..Len(arr) : arr[k] = x})

\* the swap index of the pass for index i: the pass uses the value drawn
\* after the Len(arr) - 1 - i values of the passes before it
SwapIndex(i) == FloorMul(input.tape[Len(input.arr) - i], i + 1)

\* C23: shuffleInPlace with any rng returning values in [0, 1) leaves a
\* permutation of the array, every swap index j of the pass for index i
\* satisfies 0 <= j <= i, exactly max(0, length - 1) values are drawn, and an
\* empty or single-element array is left unchanged without drawing.
C23_ShuffleIsAPermutation ==
  Shuffled =>
    /\ Len(out.arr) = Len(input.arr)
    /\ \A x \in Range(input.arr) \cup Range(out.arr) :
         TimesIn(out.arr, x) = TimesIn(input.arr, x)
    /\ \A i \in 1..Len(input.arr) - 1 : SwapIndex(i) \in 0..i
    /\ Len(out.asked) = Max(0, Len(input.arr) - 1)
    /\ Len(input.tape) - Len(out.unread) = Max(0, Len(input.arr) - 1)
    /\ \A i \in 1..Len(input.arr) - 1 : out.asked[Len(input.arr) - i] = i + 1
    /\ Len(input.arr) <= 1 => (out.arr = input.arr /\ out.asked = <<>>)

\* Three different elements were shuffled into another order, the first pass
\* with the largest value below 1 and the second with 0.
C23_Witness ==
  /\ Shuffled
  /\ input.arr = <<"Ada", "Bob", "Cyd">>
  /\ input.tape[1] = <<65535, 65535>>
  /\ input.tape[2] = <<0, 0>>
  /\ out.arr = <<"Bob", "Ada", "Cyd">>
  /\ Len(out.asked) = 2

\* ---------------------------------------------------- claims: termination

\* the call is over, by a return or a throw
CallOver == out.pc = "done"

\* C24: a call of groupStudents that was made terminates (for every non-empty
\* list and positive size; here for every input): the while loop over a short program's bucket with
\* its wrap-around index ends, and so do the other loops.  Likewise the
\* repartitioner and lockedStayInPlace terminate.
C24_EveryCallEnds == (out.pc # "call") ~> CallOver

\* the call is over with the outcome r
SameOutcome(r) == out.threw = r.threw /\ out.error = r.error /\ out.groups = r.groups

\* What the passes leave when the call is over is what the call returns.
StepsAgreeWithCall ==
  CallOver =>
    CASE input.fn = "groupStudents" ->
           \E tape \in BuildTapes(input) :
             SameOutcome(GroupStudents(input.students, input.groupSize, input.seed, tape))
      [] input.fn = "reshuffleRespectingLocksToGroupSize" ->
           \E tape \in RepartitionTapes(input) :
             SameOutcome(ReshuffleRespectingLocksToGroupSize(
                           input.groups, input.programs, input.groupSize, input.seed, tape))
      [] OTHER -> out.value = LockedStayInPlace(input.groups, input.nextGroups)

\* groupStudents returned after its while loop had passed over a full group:
\* two students in two short programs and groups of one.
C24_Witness ==
  /\ CallOver
  /\ input.fn = "groupStudents"
  /\ input.groupSize = 1
  /\ Len(input.students) = 2
  /\ input.students[1].program # input.students[2].program
  /\ ~out.threw
  /\ Len(out.groups) = 2

\* ------------------------------------------------- claims: the caller's data

\* what the caller handed to the call
CallerStore ==
  CASE input.fn = "groupStudents" -> BuildStore(input.students)
    [] input.fn = "reshuffleRespectingLocksToGroupSize" -> GroupsStore(input.groups)
    [] OTHER -> CheckStore(input.groups, input.nextGroups).st

\* the objects and arrays of the store before are in the store after as they were
KeptIn(before, after) ==
  /\ SubSeq(after.obj, 1, Len(before.obj)) = before.obj
  /\ SubSeq(after.arr, 1, Len(before.arr)) = before.arr

\* C25: groupStudents leaves the caller's student list and its elements as
\* they were, and the repartitioner and lockedStayInPlace leave the input
\* groups as they were (same groups, same order, same locked flags), whether
\* they return or throw.
C25_InputsAreNotMutated == calls = 1 => KeptIn(CallerStore, out.store)

\* What the calls on the store return is what the calls return.
RefsAgreeWithCall ==
  calls = 1 =>
    CASE input.fn = "groupStudents" ->
           \E tape \in BuildTapes(input) :
             SameOutcome(GroupStudents(input.students, input.groupSize, input.seed, tape))
      [] input.fn = "reshuffleRespectingLocksToGroupSize" ->
           \E tape \in RepartitionTapes(input) :
             SameOutcome(ReshuffleRespectingLocksToGroupSize(
                           input.groups, input.programs, input.groupSize, input.seed, tape))
      [] OTHER -> out.value = LockedStayInPlace(input.groups, input.nextGroups)

\* The repartitioner moved a student between its groups and made new objects
\* and arrays for that.
C25_Witness ==
  /\ calls = 1
  /\ input.fn = "reshuffleRespectingLocksToGroupSize"
  /\ ~out.threw
  /\ \E i \in 1..Len(input.groups) : \E k \in 1..Len(input.groups[i].students) :
       /\ input.groups[i].students[k].locked
       /\ i <= Len(out.groups)
       /\ Len(out.groups[i].students) # Len(input.groups[i].students)
  /\ Len(out.store.arr) > Len(CallerStore.arr)
  /\ Len(out.store.obj) > Len(CallerStore.obj)

\* ------------------------------------------------------ claims: group sizes

\* C26: in every result of groupStudents the sizes of any two groups differ
\* by at most one.
C26_GroupsAreBalanced ==
  (BuiltValid /\ ~out.threw) =>
    \A i, j \in 1..Len(out.groups) :
      Len(out.groups[i].students) - Len(out.groups[j].students) <= 1

\* -------------------------------------------------------- claims: pin flags

\* the student s was pinned in the input groups
PinnedBefore(s) ==
  \E t \in Range(AllStudents(input.groups)) :
    t.name = s.name /\ t.program = s.program /\ t.locked

\* C27: in the result of the repartitioner a student is locked if and only if
\* that student was locked in the input groups; in the result of
\* groupStudents every student is unlocked.
C27_PinFlagsAreCarried ==
  /\ Repartitioned =>
       \A s \in Range(AllStudents(out.groups)) : s.locked <=> PinnedBefore(s)
  /\ (BuiltValid /\ ~out.threw) =>
       \A s \in Range(AllStudents(out.groups)) : ~s.locked

\* The repartitioner returned groups other than its input that hold a pinned
\* and a free student.
C27_Witness ==
  /\ Repartitioned
  /\ input.groupSize > 0
  /\ \E s \in Range(AllStudents(out.groups)) : s.locked
  /\ \E s \in Range(AllStudents(out.groups)) : ~s.locked
  /\ Len(out.groups) # Len(input.groups)

\* ----------------------------------------------------- claims: empty groups

\* no group of the groups is empty
NoneEmpty(groups) == \A i \in 1..Len(groups) : Len(groups[i].students) >= 1

\* the handler that ran last built the groups afresh, or took over a repartition
FreshlyBuilt == event.op = "generate-fresh" /\ event.outcome = "built"

RepartitionAccepted ==
  /\ event.op \in {"applyNewGroupSize", "generate-reshuffle"}
  /\ event.outcome = "accepted"

\* C28: every group returned by groupStudents holds at least one student, and
\* so does every group of a repartition that applyNewGroupSize or the Generate
\* handler accepted.
C28_NoGroupIsEmpty == (FreshlyBuilt \/ RepartitionAccepted) => NoneEmpty(state.groups)

\* The same for the calls on their own: groupStudents, and the repartitioner
\* for groups that hold a student and a size that no pinned cohort exceeds.
CoreNoGroupIsEmpty ==
  /\ (BuiltValid /\ ~out.threw) => NoneEmpty(out.groups)
  /\ (Repartitioned /\ input.groupSize > 0 /\ GroupSizesSum(input.groups) >= 1
        /\ \A i \in 1..Len(input.groups) :
             Len(LockedOf(input.groups[i].students)) <= input.groupSize)
       => NoneEmpty(out.groups)

\* A repartition into two groups, one of them with a pinned student, was
\* accepted.
C28_Witness ==
  /\ RepartitionAccepted
  /\ Len(state.groups) >= 2
  /\ \E s \in Range(AllStudents(state.groups)) : s.locked
  /\ NoneEmpty(state.groups)

\* The names on the items of some lists, the names of the locked ones, and
\* the list an item is on.
NamesOn(sections) == {item.name : item \in UNION {Range(sections[i]) : i \in 1..Len(sections)}}

LockedOn(sections) ==
  {item.name : item \in {x \in UNION {Range(sections[i]) : i \in 1..Len(sections)} : x.locked}}

ListOf(sections, name) ==
  CHOOSE i \in 1..Len(sections) : \E k \in 1..Len(sections[i]) : sections[i][k].name = name

\* The items a step has put on another list.
Moved == {n \in NamesOn(dom) \cap NamesOn(dom') : ListOf(dom', n) # ListOf(dom, n)}

\* The lists hold the same names in the same order after the step.
SameLists ==
  /\ Len(dom') = Len(dom)
  /\ \A i \in 1..Len(dom) :
       /\ Len(dom'[i]) = Len(dom[i])
       /\ \A k \in 1..Len(dom[i]) :
            /\ dom'[i][k].name = dom[i][k].name
            /\ dom'[i][k].program = dom[i][k].program

\* The items whose lock flag a step has changed.
Relocked == (LockedOn(dom) \ LockedOn(dom')) \cup (LockedOn(dom') \ LockedOn(dom))

\* C29: whatever the order of dragstart, dragend, drop and lock clicks, a drop
\* puts on another list at most the item held in `dragged`, and only when that
\* item is unlocked at the drop; `dragged` comes to hold an item only by a
\* dragstart on that item while it is unlocked, and the item's own dragend or
\* a new rendering lets go of it; a lock click flips the flag of one item and
\* leaves every item on its list and in its place; dragstart and dragend
\* change neither.
C29_ManualEditsRespectLocks ==
  [][/\ Drop => /\ Moved \subseteq ({dragged} \ LockedOn(dom))
                /\ NamesOn(dom') = NamesOn(dom)
                /\ Relocked = {}
                /\ dragged' = dragged
     /\ LockClick => /\ SameLists
                     /\ Cardinality(Relocked) = 1
                     /\ dragged' = dragged
     /\ (DragStart \/ DragEnd) => dom' = dom
     /\ (dragged' # dragged /\ dragged' # "")
          => /\ DragStart
             /\ dragged' \in NamesOn(dom) \ LockedOn(dom)
     /\ (DragEnd /\ dragged # "") => dragged' \in {dragged, ""}]_vars

\* After a drop of an unlocked dragged item on another list and a lock click:
\* the dragged item is the last of a list that is not its group in state, and
\* another item, still on the list of its group, has got a lock that state
\* does not have.
C29_Witness ==
  /\ dragged # ""
  /\ Len(dom) = Len(state.groups)
  /\ NamesOn(dom) = NamesOn(Render(state.groups))
  /\ dragged \in NamesOn(dom) \ LockedOn(dom)
  /\ ListOf(dom, dragged) # ListOf(Render(state.groups), dragged)
  /\ dom[ListOf(dom, dragged)][Len(dom[ListOf(dom, dragged)])].name = dragged
  /\ \E n \in LockedOn(dom) \ LockedOn(Render(state.groups)) :
       ListOf(dom, n) = ListOf(Render(state.groups), n)

\* The check has been made on a repartition that did not throw.
ResizeChecked == input.fn = "applyNewGroupSize" /\ calls = 1 /\ ~out.threw

\* The keys of the pinned students of a group.
PinnedKeys(group) == Range(LockedKeys(group.students))

\* Two pinned students of different groups share name and program.
TwinsPinnedApart(groups) ==
  \E i, j \in 1..Len(groups) : i # j /\ PinnedKeys(groups[i]) \cap PinnedKeys(groups[j]) # {}

\* C30: lockedStayInPlace is true of the groups on the page and the groups the
\* repartitioner made of them, also when two pinned students of different
\* groups on the page share name and program.
C30_TwinsAreNotRejected == (ResizeChecked /\ TwinsPinnedApart(input.groups)) => out.value

\* Without such a pair the check is true of every repartition that was made.
OthersAreNotRejected == (ResizeChecked /\ ~TwinsPinnedApart(input.groups)) => out.value

\* With such a pair the repartitioner still leaves each pinned cohort whole, in
\* the slot of its rank, and alone there.
TwinCohortsAreKept ==
  ResizeChecked =>
    \A c \in 1..Len(LockedGroups(input.groups)) :
      LockedOf(out.groups[c].students) = LockedGroups(input.groups)[c].locked

====
